---- MODULE Spec2Model ----
(***************************************************************************)
(* A model of council.py: the transport caller call_model with its retry   *)
(* loop, and the three-stage pipeline run_council (Stage 1 fan-out with    *)
(* the quorum gate, Stage 2 cross-review fan-out, Stage 3 chairman         *)
(* synthesis with layered JSON extraction and schema coercion).            *)
(*                                                                         *)
(* Texts are sequences of tokens; the token " " is whitespace.  A          *)
(* coroutine step (from one await to the next) is one action.              *)
(***************************************************************************)
EXTENDS Integers, Sequences, FiniteSets, TLC

\* ---------------------------------------------------------------- config
\* council.py:39
MAX_RETRIES == 2
\* council.py:40
MIN_QUORUM == 2

\* council.py:25-30 (id, label, role of the static roster; the model
\* identifier is one-to-one with the id and is not kept apart)
COUNCILORS ==
    << [id |-> "deepseek-r1",  label |-> "DeepSeek R1",      role |-> "Reasoner"],
       [id |-> "hermes-405b",  label |-> "Hermes 3 405B",    role |-> "Knowledge"],
       [id |-> "qwen3-coder",  label |-> "Qwen3 Coder 480B", role |-> "Structuralist"],
       [id |-> "llama-33-70b", label |-> "Llama 3.3 70B",    role |-> "Generalist"] >>

\* council.py:32-36
CHAIRMAN == [id |-> "kimi-k2.5", label |-> "Kimi K2.5 (Chairman)"]

Roster == 1..Len(COUNCILORS)

\* ---------------------------------------------------------------- texts
\* str.strip(): drop leading and trailing whitespace tokens
RECURSIVE LStrip(_)
LStrip(s) == IF s # <<>> /\ Head(s) = " " THEN LStrip(Tail(s)) ELSE s

RECURSIVE RStrip(_)
RStrip(s) ==
    IF s # <<>> /\ s[Len(s)] = " " THEN RStrip(SubSeq(s, 1, Len(s) - 1)) ELSE s

StripKeepsTrailing(s) == LStrip(s)

Strip(s) == RStrip(LStrip(s))

\* float(x) on a header value: a non-empty run of digit tokens is a number,
\* anything else raises ValueError (reported as ok = FALSE)
Digits == {"0", "1", "2", "3", "4", "5", "6", "7", "8", "9"}

DigitVal(d) ==
    CASE d = "0" -> 0 [] d = "1" -> 1 [] d = "2" -> 2 [] d = "3" -> 3
      [] d = "4" -> 4 [] d = "5" -> 5 [] d = "6" -> 6 [] d = "7" -> 7
      [] d = "8" -> 8 [] d = "9" -> 9

RECURSIVE DecVal(_)
DecVal(s) ==
    IF s = <<>> THEN 0 ELSE 10 * DecVal(SubSeq(s, 1, Len(s) - 1)) + DigitVal(s[Len(s)])

FloatRejectsAll(s) == [ok |-> FALSE, val |-> 0]

Float(s) ==
    IF s # <<>> /\ \A i \in 1..Len(s) : s[i] \in Digits
    THEN [ok |-> TRUE, val |-> DecVal(s)]
    ELSE [ok |-> FALSE, val |-> 0]

\* ---------------------------------------------------------------- transport
\* What one client.post(...) gives back: it raises, or it returns a response
\* with a status code, an optional Retry-After header and a body.
NoHeader == <<"absent">>

\* JSON values of a response body, as tagged records
JNull == [t |-> "null"]
JNum(n) == [t |-> "num", n |-> n]
JStr(s) == [t |-> "str", s |-> s]
JList(items) == [t |-> "list", items |-> items]
JObj(f) == [t |-> "obj", f |-> f]
\* the body is not JSON at all: resp.json() raises
NotJson == [t |-> "notjson"]

IsDict(v) == v.t = "obj"
\* dict.get(key) with default None
Get(v, key) == IF key \in DOMAIN v.f THEN v.f[key] ELSE JNull
\* dict.get(key, {})
GetOrEmptyDict(v, key) ==
    IF key \in DOMAIN v.f THEN v.f[key] ELSE JObj(<<>>)
\* Python truthiness of a JSON value
Truthy(v) ==
    CASE v.t = "null" -> FALSE
      [] v.t = "num"  -> v.n # 0
      [] v.t = "str"  -> v.s # <<>>
      [] v.t = "list" -> v.items # <<>>
      [] v.t = "obj"  -> DOMAIN v.f # {}
      [] OTHER -> FALSE

Raised(msg) == [kind |-> "raise", msg |-> msg]
Response(status, retry_after, body) ==
    [kind |-> "resp", status |-> status, retry_after |-> retry_after, body |-> body]

\* the body of a well-formed completion with message content content
ChoicesBody(content) ==
    JObj([choices |-> JList(<< JObj([message |-> JObj([content |-> content])]) >>)])

\* ---------------------------------------------------------------- call_model
\* The part of one loop iteration that follows client.post: what the attempt
\* leads to.  kind is
\*   "ok"     return (True, content.strip())
\*   "hinted" 429/5xx branch: sleep wait and continue, or return failure
\*   "error"  any other error path: falls to the shared retry-or-fail
\* council.py:69-94
ValidateBody(data) ==
    IF ~IsDict(data)
    THEN [kind |-> "error", error |-> "AttributeError: no attribute 'get'"]
    ELSE LET choices == Get(data, "choices") IN
         IF ~Truthy(choices) \/ choices.t # "list"
         THEN [kind |-> "error",
               error |-> "Invalid API response: missing or empty choices"]
         ELSE LET first == choices.items[1] IN
              IF ~IsDict(first)
              THEN [kind |-> "error", error |-> "AttributeError: no attribute 'get'"]
              ELSE LET message == GetOrEmptyDict(first, "message") IN
                   IF ~IsDict(message)
                   THEN [kind |-> "error",
                         error |-> "AttributeError: no attribute 'get'"]
                   ELSE LET content == Get(message, "content") IN
                        IF content.t = "null"
                        THEN [kind |-> "error",
                              error |-> "Invalid API response: missing message content"]
                        ELSE IF content.t # "str"
                        THEN [kind |-> "error",
                              error |-> "AttributeError: no attribute 'strip'"]
                        ELSE [kind |-> "ok", text |-> Strip(content.s)]

IsRetryStatus(status) == status = 429 \/ status >= 500

\* resp.raise_for_status(): every non-2xx status raises
RaisesForStatus(status) == status < 200 \/ status >= 300

StatusName(status) ==
    CASE status = 200 -> "HTTP 200" [] status = 400 -> "HTTP 400"
      [] status = 429 -> "HTTP 429" [] status = 500 -> "HTTP 500"
      [] status = 503 -> "HTTP 503" [] OTHER -> "HTTP"

AttemptOutcome(r, attempt) ==
    IF r.kind = "raise"
    THEN [kind |-> "error", error |-> r.msg]
    ELSE IF IsRetryStatus(r.status)
    THEN LET hint == IF r.retry_after = NoHeader
                     THEN [ok |-> TRUE, val |-> 2 * (attempt + 1)]
                     ELSE Float(r.retry_after) IN
         IF ~hint.ok
         THEN [kind |-> "error", error |-> "ValueError: could not convert string to float"]
         ELSE [kind |-> "hinted", error |-> StatusName(r.status), wait |-> hint.val]
    ELSE IF RaisesForStatus(r.status)
    THEN [kind |-> "error", error |-> "HTTPStatusError"]
    ELSE IF r.body.t = "notjson"
    THEN [kind |-> "error", error |-> "JSONDecodeError"]
    ELSE ValidateBody(r.body)

\* tag = label or model (council.py:48)
Tag(label, model) == IF label # "" THEN label ELSE model

\* A call_model invocation that has just issued its first request
\* (council.py:44-52).  pc is the await the coroutine is suspended at:
\* "created" (task not yet run), "post" (client.post), "sleep"
\* (asyncio.sleep before the next attempt), "done" (returned).
\* nreq, nsleep and seen record what the invocation did so far.
NoCall ==
    [pc |-> "created", attempt |-> 0, tag |-> "", ok |-> FALSE, text |-> <<>>,
     error |-> "", after |-> 0, wait |-> 0, nreq |-> 0, nsleep |-> 0, seen |-> <<>>]

CreatedCall(tag) == [NoCall EXCEPT !.tag = tag]

\* first loop iteration: attempt = 0, client.post issued
StartCall(cs) == [cs EXCEPT !.pc = "post", !.attempt = 0, !.nreq = 1]

FailWithEarlier(cs, error, after) ==
    [cs EXCEPT !.pc = "done", !.ok = FALSE,
               !.error = IF cs.error # "" THEN cs.error ELSE error, !.after = after]

\* return (False, f"{tag}: {error} after {MAX_RETRIES + 1} attempts") / f"{tag}: {error}"
FailWith(cs, error, after) ==
    [cs EXCEPT !.pc = "done", !.ok = FALSE, !.error = error, !.after = after]

MayRetryOneLess(attempt) == attempt < MAX_RETRIES - 1

MayRetryOneMore(attempt) == attempt <= MAX_RETRIES

MayRetryNever(attempt) == FALSE

\* council.py:73-77 and 96-102: retry while attempt < MAX_RETRIES
MayRetry(attempt) == attempt < MAX_RETRIES

\* council.py:69-102: the step from the return of client.post to the next
\* await (a backoff sleep) or to the return of call_model
OnResponse(cs0, r) ==
    LET cs == [cs0 EXCEPT !.seen = Append(@, r)]
        o == AttemptOutcome(r, cs.attempt) IN
    IF o.kind = "ok"
    THEN [cs EXCEPT !.pc = "done", !.ok = TRUE, !.text = o.text]
    ELSE IF o.kind = "hinted"
    THEN IF MayRetry(cs.attempt)
         THEN [cs EXCEPT !.pc = "sleep", !.error = o.error, !.wait = o.wait,
                         !.nsleep = @ + 1]
         ELSE FailWith(cs, o.error, MAX_RETRIES + 1)
    ELSE IF MayRetry(cs.attempt)
         THEN [cs EXCEPT !.pc = "sleep", !.error = o.error,
                         !.wait = 2 * (cs.attempt + 1), !.nsleep = @ + 1]
         ELSE FailWith(cs, o.error, 0)

\* the sleep is over: next loop iteration, client.post issued again
\* (council.py:50-52)
OnWake(cs) ==
    [cs EXCEPT !.pc = "post", !.attempt = @ + 1, !.nreq = @ + 1]

\* the content of the (success, content) tuple call_model returned: the
\* trimmed text, or f"{tag}: {error}" with " after N attempts" on the
\* 429/5xx branch (council.py:77, 91, 102)
FailureText(cs) ==
    <<cs.tag, ": ", cs.error>>
    \o (IF cs.after > 0 THEN <<" after ", ToString(cs.after), " attempts">> ELSE <<>>)

Content(cs) == IF cs.ok THEN cs.text ELSE FailureText(cs)

\* ---------------------------------------------------------------- JSON text
\* json.loads on a token text.  Tokens: " " (whitespace), the punctuation
\* { } [ ] , : , the literals null, true and 7, string literals (a token that
\* starts and ends with a double quote; StrLits lists them with their
\* contents), "<fence>" (a markdown fence of three backquotes), "json" (the fence's language tag)
\* and "word" (prose).
JBool(b) == [t |-> "bool", b |-> b]

StrLits ==
    [tok \in {"\"executive_summary\"", "\"risks\"", "\"confidence\"",
              "\"phases\"", "\"confidence_note\"",
              "\"final_answer\"", "\"consensus_points\"", "\"text\"", "\"high\""}
     |-> CASE tok = "\"executive_summary\"" -> "executive_summary"
           [] tok = "\"risks\"" -> "risks"
           [] tok = "\"confidence\"" -> "confidence"
           [] tok = "\"phases\"" -> "phases"
           [] tok = "\"confidence_note\"" -> "confidence_note"
           [] tok = "\"final_answer\"" -> "final_answer"
           [] tok = "\"consensus_points\"" -> "consensus_points"
           [] tok = "\"text\"" -> "text"
           [] tok = "\"high\"" -> "high"]

ParseFail == [ok |-> FALSE, v |-> JNull, next |-> 0]
Parsed(v, next) == [ok |-> TRUE, v |-> v, next |-> next]

RECURSIVE SkipWs(_, _)
SkipWs(toks, i) ==
    IF i <= Len(toks) /\ toks[i] = " " THEN SkipWs(toks, i + 1) ELSE i

TokAt(toks, i) == IF i >= 1 /\ i <= Len(toks) THEN toks[i] ELSE "<eof>"

RECURSIVE ParseValue(_, _), ParseItems(_, _, _), ParseMembers(_, _, _)
\* one JSON value starting at or after position i
ParseValue(toks, i) ==
    LET j == SkipWs(toks, i)
        tk == TokAt(toks, j) IN
    CASE tk = "null" -> Parsed(JNull, j + 1)
      [] tk = "true" -> Parsed(JBool(TRUE), j + 1)
      [] tk = "7" -> Parsed(JNum(7), j + 1)
      [] tk \in DOMAIN StrLits -> Parsed(JStr(<<StrLits[tk]>>), j + 1)
      [] tk = "[" ->
            IF TokAt(toks, SkipWs(toks, j + 1)) = "]"
            THEN Parsed(JList(<<>>), SkipWs(toks, j + 1) + 1)
            ELSE ParseItems(toks, j + 1, <<>>)
      [] tk = "{" ->
            IF TokAt(toks, SkipWs(toks, j + 1)) = "}"
            THEN Parsed(JObj(<<>>), SkipWs(toks, j + 1) + 1)
            ELSE ParseMembers(toks, j + 1, <<>>)
      [] OTHER -> ParseFail

\* value ("," value)* "]"
ParseItems(toks, i, acc) ==
    LET r == ParseValue(toks, i) IN
    IF ~r.ok THEN ParseFail
    ELSE LET j == SkipWs(toks, r.next)
             tk == TokAt(toks, j) IN
         IF tk = "," THEN ParseItems(toks, j + 1, Append(acc, r.v))
         ELSE IF tk = "]" THEN Parsed(JList(Append(acc, r.v)), j + 1)
         ELSE ParseFail

\* string ":" value ("," string ":" value)* "}" ; a repeated key keeps the last value
ParseMembers(toks, i, acc) ==
    LET j == SkipWs(toks, i)
        key == TokAt(toks, j)
        c == SkipWs(toks, j + 1) IN
    IF key \notin DOMAIN StrLits \/ TokAt(toks, c) # ":" THEN ParseFail
    ELSE LET r == ParseValue(toks, c + 1) IN
         IF ~r.ok THEN ParseFail
         ELSE LET e == SkipWs(toks, r.next)
                  tk == TokAt(toks, e)
                  f == (StrLits[key] :> r.v) @@ acc IN
              IF tk = "," THEN ParseMembers(toks, e + 1, f)
              ELSE IF tk = "}" THEN Parsed(JObj(f), e + 1)
              ELSE ParseFail

\* json.loads(text): one value, then nothing but whitespace; JSONDecodeError otherwise
JsonLoads(toks) ==
    LET r == ParseValue(toks, 1) IN
    IF r.ok /\ SkipWs(toks, r.next) > Len(toks) THEN r ELSE ParseFail

\* positions of a token in a text
Positions(toks, tk) == {i \in 1..Len(toks) : toks[i] = tk}
Min(S) == CHOOSE x \in S : \A y \in S : x <= y
Max(S) == CHOOSE x \in S : \A y \in S : x >= y

\* re.search(fence (?:json)? \s* (.*?) \s* fence, raw, re.DOTALL): group 1, between
\* the first fence (and its tag) and the next fence (council.py:243)
FenceInterior(raw) ==
    LET fences == Positions(raw, "<fence>") IN
    IF Cardinality(fences) < 2 THEN [found |-> FALSE, text |-> <<>>]
    ELSE LET a == Min(fences)
             b == Min(fences \ {a})
             from == IF TokAt(raw, a + 1) = "json" /\ a + 1 < b THEN a + 2 ELSE a + 1 IN
         [found |-> TRUE, text |-> Strip(SubSeq(raw, from, b - 1))]

\* re.search(r"\{[\s\S]*\}", raw): from the first "{" to the last "}" (council.py:251)
BraceSpan(raw) ==
    LET opens == Positions(raw, "{")
        closes == Positions(raw, "}") IN
    IF opens = {} \/ closes = {} \/ Max(closes) < Min(opens)
    THEN [found |-> FALSE, text |-> <<>>]
    ELSE [found |-> TRUE, text |-> SubSeq(raw, Min(opens), Max(closes))]

ParseBraceFirst(raw) ==
    LET s1 == JsonLoads(Strip(raw))
        fence == FenceInterior(raw)
        s2 == IF fence.found THEN JsonLoads(Strip(fence.text)) ELSE ParseFail
        brace == BraceSpan(raw)
        s3 == IF brace.found THEN JsonLoads(brace.text) ELSE ParseFail IN
    IF s1.ok THEN [v |-> s1.v, strategy |-> 1]
    ELSE IF s3.ok THEN [v |-> s3.v, strategy |-> 3]
    ELSE IF s2.ok THEN [v |-> s2.v, strategy |-> 2]
    ELSE [v |-> JNull, strategy |-> 0]

\* council.py:233-259; strategy 0 stands for "return None" at the end
parse_chairman_json(raw) ==
    LET s1 == JsonLoads(Strip(raw))
        fence == FenceInterior(raw)
        s2 == IF fence.found THEN JsonLoads(Strip(fence.text)) ELSE ParseFail
        brace == BraceSpan(raw)
        s3 == IF brace.found THEN JsonLoads(brace.text) ELSE ParseFail IN
    IF s1.ok THEN [v |-> s1.v, strategy |-> 1]
    ELSE IF s2.ok THEN [v |-> s2.v, strategy |-> 2]
    ELSE IF s3.ok THEN [v |-> s3.v, strategy |-> 3]
    ELSE [v |-> JNull, strategy |-> 0]

\* ---------------------------------------------------------------- synthesis
\* _SCHEMA (council.py:403-416): the fields with their expected type
TextFields ==
    {"executive_summary", "resource_considerations", "confidence", "confidence_note"}
ListFields ==
    {"deliverables", "success_criteria", "phases", "risks", "moats",
     "strategic_priorities", "go_no_go_criteria", "disagreements"}
SchemaKeys == TextFields \cup ListFields

SchemaDefault(key) ==
    IF key \in ListFields THEN JList(<<>>)
    ELSE IF key = "confidence" THEN JStr(<<"unknown">>)
    ELSE JStr(<<>>)

\* str(val) of a parsed JSON value, as Python prints it
RECURSIVE PyRepr(_), PyReprItems(_, _), PyReprMembers(_, _)
PyRepr(v) ==
    CASE v.t = "null" -> <<"None">>
      [] v.t = "bool" -> IF v.b THEN <<"True">> ELSE <<"False">>
      [] v.t = "num"  -> <<ToString(v.n)>>
      [] v.t = "str"  -> <<"'">> \o v.s \o <<"'">>
      [] v.t = "list" -> <<"[">> \o PyReprItems(v.items, 1) \o <<"]">>
      [] v.t = "obj"  -> <<"{">> \o PyReprMembers(v.f, DOMAIN v.f) \o <<"}">>

PyReprItems(items, i) ==
    IF i > Len(items) THEN <<>>
    ELSE PyRepr(items[i])
         \o (IF i < Len(items) THEN <<",", " ">> ELSE <<>>)
         \o PyReprItems(items, i + 1)

PyReprMembers(f, keys) ==
    IF keys = {} THEN <<>>
    ELSE LET k == CHOOSE x \in keys : TRUE IN
         <<"'", k, "'", ":", " ">> \o PyRepr(f[k])
         \o (IF keys # {k} THEN <<",", " ">> ELSE <<>>)
         \o PyReprMembers(f, keys \ {k})

PyStr(v) == IF v.t = "str" THEN v.s ELSE PyRepr(v)

\* isinstance(val, expected_type) for the field's expected type
HasExpectedType(key, val) ==
    IF key \in ListFields THEN val.t = "list" ELSE val.t = "str"

CoerceFieldToDefault(key, val) ==
    IF HasExpectedType(key, val) THEN val ELSE SchemaDefault(key)

\* council.py:417-420, one field
CoerceField(key, val) ==
    IF HasExpectedType(key, val) THEN val
    ELSE IF key \in TextFields /\ val.t # "null" THEN JStr(PyStr(val))
    ELSE SchemaDefault(key)

\* council.py:417-420: every schema field is set; other keys stay
CoerceSchema(synthesis) ==
    [key \in DOMAIN synthesis \cup SchemaKeys |->
        IF key \in SchemaKeys
        THEN CoerceField(key, Get(JObj(synthesis), key))
        ELSE synthesis[key]]

DegradedRecordSummaryOnly(summary, note) ==
    [key \in SchemaKeys |->
        IF key = "executive_summary" THEN JStr(summary)
        ELSE IF key \in ListFields THEN JList(<<>>) ELSE JStr(<<>>)]

\* the fixed-shape record with the given summary and note
\* (council.py:364-377 and 387-400)
DegradedRecord(summary, note) ==
    [key \in SchemaKeys |->
        CASE key = "executive_summary" -> JStr(summary)
          [] key = "confidence" -> JStr(<<"unknown">>)
          [] key = "confidence_note" -> JStr(note)
          [] key \in ListFields -> JList(<<>>)
          [] OTHER -> JStr(<<>>)]

\* council.py:362-423: what stage3_chairman does with the outcome of the
\* chairman call.  synthesis.get on a value that is no dict raises
\* AttributeError, which nothing catches.
Stage3Result(ok, raw) ==
    IF ~ok
    THEN [raised |-> FALSE,
          synthesis |-> DegradedRecord(<<"Chairman failed to respond: ">> \o raw,
                                       <<"Chairman call failed.">>)]
    ELSE LET parsed == parse_chairman_json(raw).v IN
         IF parsed.t = "null"
         THEN [raised |-> FALSE,
               synthesis |-> CoerceSchema(DegradedRecord(raw,
                   <<"Chairman response could not be parsed as JSON.">>))]
         ELSE IF ~IsDict(parsed)
         THEN [raised |-> TRUE, synthesis |-> <<>>]
         ELSE [raised |-> FALSE, synthesis |-> CoerceSchema(parsed.f)]

\* ---------------------------------------------------------------- state
VARIABLES
    pc,          \* where run_council is: "start", "stage1", "stage2", "stage3",
                 \* "returned", "raised"; "solo" for a lone call_model invocation;
                 \* "validate", "validated", "exited" for the renderer's validate_input
    fast,        \* the fast argument of run_council
    calls,       \* the call_model invocations of the running stage, by position
    answers,     \* Stage 1 successes: <<[id, label, role, answer]>>
    reviews,     \* [none, items]: None, or the Stage 2 successes (answer plus review)
    all_errors,  \* <<[model, error]>>
    output,      \* the RunReport, or the exception run_council raised; for
                 \* validate_input its argument and the dict it returned
    counting,    \* whether the transport's request counter is attached
    issued,      \* HTTP requests the transport has seen so far, per stage
    shown,       \* what review_one built for each Stage 2 task, where the run
                 \* is observed from the start of Stage 2; <<>> elsewhere
    finished     \* [on, order]: where the run is observed with the order of
                 \* completion, the positions of the calls of the latest fan-out
                 \* in the order in which they returned

vars == <<pc, fast, calls, answers, reviews, all_errors, output, counting, issued, shown,
          finished>>

Untracked == [on |-> FALSE, order |-> <<>>]

\* ---------------------------------------------------------------- inputs
\* longest message content the transport returns to a lone call
MaxContentLen == 2

RECURSIVE SeqsUpTo(_, _)
SeqsUpTo(S, n) ==
    IF n = 0 THEN {<<>>}
    ELSE LET shorter == SeqsUpTo(S, n - 1) IN
         shorter \cup {Append(s, x) : s \in {t \in shorter : Len(t) = n - 1}, x \in S}

Contents == SeqsUpTo({" ", "a"}, MaxContentLen)

\* Retry-After header values: absent, numeric, non-numeric
RetryAfterValues == {NoHeader, <<"7">>, <<"soon">>}

\* bodies of a 2xx response, well-formed and not
Bodies ==
    {NotJson, JList(<<>>), JObj(<<>>),
     JObj([choices |-> JNull]), JObj([choices |-> JList(<<>>)]),
     JObj([choices |-> JStr(<<"a">>)]),
     JObj([choices |-> JList(<<JStr(<<"a">>)>>)]),
     JObj([choices |-> JList(<<JObj(<<>>)>>)]),
     JObj([choices |-> JList(<<JObj([message |-> JNull])>>)]),
     ChoicesBody(JNull), ChoicesBody(JNum(5))}
    \cup {ChoicesBody(JStr(c)) : c \in Contents}

\* everything one client.post may give back to a lone call
Responses ==
    {Raised("ConnectError"), Raised("ReadTimeout")}
    \cup {Response(st, h, NotJson) : st \in {429, 500}, h \in RetryAfterValues}
    \cup {Response(503, NoHeader, NotJson)}
    \cup {Response(400, h, NotJson) : h \in {NoHeader, <<"7">>}}
    \cup {Response(200, NoHeader, b) : b \in Bodies}

\* labels a lone call is made with; "" makes the tag fall back to the model
SoloLabels == {"Test", ""}
SoloModel == "test/model:free"

\* ---------------------------------------------------------------- lone call
InitCall ==
    /\ pc = "solo"
    /\ fast = FALSE
    /\ \E label \in SoloLabels : calls = <<CreatedCall(Tag(label, SoloModel))>>
    /\ answers = <<>>
    /\ reviews = [none |-> TRUE, items |-> <<>>]
    /\ all_errors = <<>>
    /\ output = [kind |-> "none"]
    /\ counting = FALSE
    /\ issued = [s1 |-> 0, s2 |-> 0, s3 |-> 0]
    /\ finished = Untracked
    /\ shown = <<>>

\* the task of call k runs to its first await: tasks run in creation order
Start(k) ==
    /\ k \in DOMAIN calls
    /\ calls[k].pc = "created"
    /\ \A j \in DOMAIN calls : j < k => calls[j].pc # "created"
    /\ calls' = [calls EXCEPT ![k] = StartCall(@)]

AllStarted == \A j \in DOMAIN calls : calls[j].pc # "created"

ReceiveFailFast(k, r) ==
    /\ k \in DOMAIN calls
    /\ AllStarted
    /\ calls[k].pc = "post"
    /\ LET mine == OnResponse(calls[k], r) IN
       calls' = [j \in DOMAIN calls |->
                    IF j = k THEN mine
                    ELSE IF mine.pc = "done" /\ ~mine.ok /\ calls[j].pc # "done"
                    THEN FailWith(calls[j], "CancelledError", 0)
                    ELSE calls[j]]

\* client.post of call k returns r (or raises)
Receive(k, r) ==
    /\ k \in DOMAIN calls
    /\ AllStarted
    /\ calls[k].pc = "post"
    /\ calls' = [calls EXCEPT ![k] = OnResponse(@, r)]

\* the backoff sleep of call k is over
Wake(k) ==
    /\ k \in DOMAIN calls
    /\ AllStarted
    /\ calls[k].pc = "sleep"
    /\ calls' = [calls EXCEPT ![k] = OnWake(@)]

SoloStart ==
    /\ pc = "solo"
    /\ Start(1)
    /\ UNCHANGED <<pc, fast, answers, reviews, all_errors, output, counting, shown, issued, finished>>

SoloReceive ==
    /\ pc = "solo"
    /\ \E r \in Responses : Receive(1, r)
    /\ UNCHANGED <<pc, fast, answers, reviews, all_errors, output, counting, shown, issued, finished>>

SoloWake ==
    /\ pc = "solo"
    /\ Wake(1)
    /\ UNCHANGED <<pc, fast, answers, reviews, all_errors, output, counting, shown, issued, finished>>

NextCall == SoloStart \/ SoloReceive \/ SoloWake

SpecCall == InitCall /\ [][NextCall]_vars

\* ---------------------------------------------------------------- pipeline inputs
\* what the transport answers, per stage: a well-formed completion whose text
\* names the request it answers, or a server error
AnswerTokens == <<"answer-1", "answer-2", "answer-3", "answer-4">>
ReviewTokens ==
    [id \in {COUNCILORS[k].id : k \in Roster} |->
        CASE id = "deepseek-r1" -> "review-1" [] id = "hermes-405b" -> "review-2"
          [] id = "qwen3-coder" -> "review-3" [] id = "llama-33-70b" -> "review-4"]

GoodObject ==
    << "{", "\"executive_summary\"", ":", "\"text\"", ",", " ",
       "\"risks\"", ":", "[", "7", "]", ",", "\"confidence\"", ":", "\"high\"", "}" >>

\* chairman replies: clean JSON, fenced, with a preamble, prose, truncated,
\* wrong field shapes, and JSON that is no object
ChairmanReplies ==
    { GoodObject,
      <<"<fence>", "json", " ">> \o GoodObject \o <<" ", "<fence>">>,
      <<"word", " ">> \o GoodObject,
      <<"word", " ", "word">>,
      <<"{", "\"executive_summary\"", ":">>,
      <<"{", "\"executive_summary\"", ":", "7", ",", "\"risks\"", ":", "\"text\"", "}">>,
      <<"[", "\"text\"", "]">>,
      <<"null">> }

OkResponse(text) == Response(200, NoHeader, ChoicesBody(JStr(text)))
ServerError == Response(500, NoHeader, NotJson)

StageResponses(k) ==
    CASE pc = "stage1" -> {OkResponse(<<" ", AnswerTokens[k]>>), ServerError}
      [] pc = "stage2" -> {OkResponse(<<ReviewTokens[answers[k].id], " ">>), ServerError}
      [] pc = "stage3" -> {OkResponse(r) : r \in ChairmanReplies} \cup {ServerError}
      [] OTHER -> {}

\* ---------------------------------------------------------------- run_council
InitRun ==
    /\ pc = "start"
    /\ fast \in BOOLEAN
    /\ calls = <<>>
    /\ answers = <<>>
    /\ reviews = [none |-> TRUE, items |-> <<>>]
    /\ all_errors = <<>>
    /\ output = [kind |-> "none"]
    /\ issued = [s1 |-> 0, s2 |-> 0, s3 |-> 0]
    /\ shown = <<>>

Init == InitRun /\ counting = FALSE /\ finished = Untracked

\* the same runs, with the transport counting the requests it receives
InitCount == InitRun /\ counting = TRUE /\ finished = Untracked

\* the same runs, observed with the order in which the calls return
InitOrder == InitRun /\ counting = FALSE /\ finished = [on |-> TRUE, order |-> <<>>]

AllDoneAny == \E j \in DOMAIN calls : calls[j].pc = "done"

\* asyncio.gather returns when every task has finished (council.py:138, 216)
AllDone == \A j \in DOMAIN calls : calls[j].pc = "done"

Indices(n) == [i \in 1..n |-> i]

WithAnswer(councilor, content) ==
    [id |-> councilor.id, label |-> councilor.label, role |-> councilor.role,
     answer |-> content]

WithReview(councilor, content) ==
    [id |-> councilor.id, label |-> councilor.label, role |-> councilor.role,
     answer |-> councilor.answer, review |-> content]

ErrorEntry(councilor, content) == [model |-> councilor.label, error |-> content]

Stage1SuccessesByPosition(cs) ==
    LET ks == SelectSeq(Indices(Len(COUNCILORS)), LAMBDA k : cs[k].ok) IN
    [i \in 1..Len(ks) |-> WithAnswer(COUNCILORS[i], Content(cs[ks[i]]))]

Stage1SuccessesAsCompleted(cs) ==
    LET ks == SelectSeq(IF finished.on THEN finished.order ELSE Indices(Len(COUNCILORS)),
                        LAMBDA k : cs[k].ok) IN
    [i \in 1..Len(ks) |-> WithAnswer(COUNCILORS[ks[i]], Content(cs[ks[i]]))]

\* council.py:140-148: zip(COUNCILORS, results), in roster order
Stage1Successes(cs) ==
    LET ks == SelectSeq(Indices(Len(COUNCILORS)), LAMBDA k : cs[k].ok) IN
    [i \in 1..Len(ks) |-> WithAnswer(COUNCILORS[ks[i]], Content(cs[ks[i]]))]

Stage1ErrorsNone(cs) == <<>>

Stage1Errors(cs) ==
    LET ks == SelectSeq(Indices(Len(COUNCILORS)), LAMBDA k : ~cs[k].ok) IN
    [i \in 1..Len(ks) |-> ErrorEntry(COUNCILORS[ks[i]], Content(cs[ks[i]]))]

BelowQuorumOffByOne(successes) == Len(successes) < MIN_QUORUM - 1

\* council.py:150
BelowQuorum(successes) == Len(successes) < MIN_QUORUM

Stage2SuccessesAll(cs) ==
    [i \in 1..Len(answers) |-> WithReview(answers[i], Content(cs[i]))]

Stage2SuccessesNone(cs) == <<>>

\* council.py:218-226: results in the order of the tasks, i.e. of answers
Stage2Successes(cs) ==
    LET ks == SelectSeq(Indices(Len(answers)), LAMBDA k : cs[k].ok) IN
    [i \in 1..Len(ks) |-> WithReview(answers[ks[i]], Content(cs[ks[i]]))]

Stage2ErrorsNone(cs) == <<>>

Stage2Errors(cs) ==
    LET ks == SelectSeq(Indices(Len(answers)), LAMBDA k : ~cs[k].ok) IN
    [i \in 1..Len(ks) |-> ErrorEntry(answers[ks[i]], Content(cs[ks[i]]))]

\* council.py:125-136: one call_model coroutine per councilor
Stage1Tasks == [k \in Roster |-> CreatedCall(Tag(COUNCILORS[k].label, COUNCILORS[k].id))]

Stage2TasksForRoster(survivors) ==
    [k \in Roster |-> CreatedCall(Tag(COUNCILORS[k].label, COUNCILORS[k].id))]

\* council.py:215: one review_one coroutine per surviving answer
Stage2Tasks(survivors) ==
    [k \in 1..Len(survivors) |-> CreatedCall(Tag(survivors[k].label, survivors[k].id))]

\* council.py:352-360: the single chairman call
Stage3Tasks == <<CreatedCall(Tag(CHAIRMAN.label, CHAIRMAN.id))>>

\* run_council is called: Stage 1 creates its tasks and awaits the gather
\* (council.py:125-138, 430-436)
Launch1 ==
    /\ pc = "start"
    /\ pc' = "stage1"
    /\ calls' = Stage1Tasks
    /\ UNCHANGED <<fast, answers, reviews, all_errors, output, counting, shown, issued, finished>>

Stage == pc \in {"stage1", "stage2", "stage3"}

Bump(stage) ==
    IF ~counting THEN issued ELSE
    CASE stage = "stage1" -> [issued EXCEPT !.s1 = @ + 1]
      [] stage = "stage2" -> [issued EXCEPT !.s2 = @ + 1]
      [] stage = "stage3" -> [issued EXCEPT !.s3 = @ + 1]

\* a task of the running stage issues its first request; the prompt a
\* review_one task sends is built from one of anonymize_answers(answers, id)
\* and the chairman's is ChairmanPrompt(answers, reviews, fast); no response
\* depends on them, and they are kept only under SpecAnon
StartTask ==
    /\ Stage
    /\ \E k \in DOMAIN calls : Start(k)
    /\ issued' = Bump(pc)
    /\ finished' = IF \A j \in DOMAIN calls : calls[j].pc = "created"
                   THEN [finished EXCEPT !.order = <<>>]
                   ELSE finished
    /\ UNCHANGED <<pc, fast, answers, reviews, all_errors, output, counting, shown>>

\* a request of the running stage is answered
ReceiveStage ==
    /\ Stage
    /\ \E k \in DOMAIN calls : \E r \in StageResponses(k) :
          /\ Receive(k, r)
          /\ finished' = IF finished.on /\ calls'[k].pc = "done"
                         THEN [finished EXCEPT !.order = Append(@, k)]
                         ELSE finished
    /\ UNCHANGED <<pc, fast, answers, reviews, all_errors, output, counting, shown, issued>>

\* a backoff ends and the request is issued again
WakeStage ==
    /\ Stage
    /\ \E k \in DOMAIN calls : Wake(k)
    /\ issued' = Bump(pc)
    /\ UNCHANGED <<pc, fast, answers, reviews, all_errors, output, counting, shown, finished>>

\* the gather of Stage 1 returns with all results (council.py:138-156); on
\* quorum run_council goes on to Stage 2, or straight to Stage 3 in fast mode
\* (council.py:436-449)
Gather1 ==
    /\ pc = "stage1"
    /\ AllDone
    /\ LET successes == Stage1Successes(calls)
           errors == Stage1Errors(calls) IN
       IF BelowQuorum(successes)
       THEN /\ pc' = "raised"
            /\ output' = [kind |-> "RuntimeError", succeeded |-> Len(successes),
                          errors |-> errors]
            /\ calls' = <<>>
            /\ UNCHANGED <<answers, reviews, all_errors>>
       ELSE /\ answers' = successes
            /\ all_errors' = all_errors \o errors
            /\ IF ~fast
               THEN /\ pc' = "stage2"
                    /\ calls' = Stage2Tasks(successes)
               ELSE /\ pc' = "stage3"
                    /\ calls' = Stage3Tasks
            /\ UNCHANGED <<reviews, output>>
    /\ UNCHANGED <<fast, counting, shown, issued, finished>>

\* the gather of Stage 2 returns (council.py:216-228); run_council goes on
\* to Stage 3 (council.py:443-449)
Gather2 ==
    /\ pc = "stage2"
    /\ AllDone
    /\ reviews' = [none |-> FALSE, items |-> Stage2Successes(calls)]
    /\ all_errors' = all_errors \o Stage2Errors(calls)
    /\ pc' = "stage3"
    /\ calls' = Stage3Tasks
    /\ UNCHANGED <<fast, answers, output, counting, shown, issued, finished>>

ReviewItemsAlways == [i \in 1..Len(answers) |-> WithReview(answers[i], <<>>)]

\* reviews or [] (council.py:472)
ReviewItems == IF reviews.none THEN <<>> ELSE reviews.items

ReportErrorsWithChairman ==
    all_errors
    \o (IF calls # <<>> /\ ~calls[1].ok
        THEN <<ErrorEntry(CHAIRMAN, Content(calls[1]))>>
        ELSE <<>>)

\* "errors": all_errors (council.py:479)
ReportErrors == all_errors

\* council.py:454-480
RunReport(synthesis) ==
    [key \in SchemaKeys |-> synthesis[key]]
    @@ [individual_answers |->
            [i \in 1..Len(answers) |->
                [model |-> answers[i].label, answer |-> answers[i].answer]],
        peer_reviews |->
            [i \in 1..Len(ReviewItems) |->
                [reviewer |-> ReviewItems[i].label, review |-> ReviewItems[i].review]],
        question |-> "<question>",
        chairman |-> CHAIRMAN.label,
        council |-> [k \in Roster |-> COUNCILORS[k].label],
        stage2_skipped |-> fast,
        run_started_at |-> "<started_at>",
        run_duration_seconds |-> "<duration>",
        errors |-> ReportErrors]

\* the chairman call returns; stage3_chairman builds the synthesis and
\* run_council the report (council.py:362-423, 451-482)
Finish3 ==
    /\ pc = "stage3"
    /\ AllDone
    /\ LET res == Stage3Result(calls[1].ok, Content(calls[1])) IN
       IF res.raised
       THEN /\ pc' = "raised"
            /\ output' = [kind |-> "AttributeError"]
       ELSE /\ pc' = "returned"
            /\ output' = [kind |-> "report", report |-> RunReport(res.synthesis)]
    /\ calls' = <<>>
    /\ UNCHANGED <<fast, answers, reviews, all_errors, counting, shown, issued, finished>>

Next ==
    \/ Launch1
    \/ StartTask
    \/ ReceiveStage
    \/ WakeStage
    \/ Gather1
    \/ Gather2
    \/ Finish3

Spec == Init /\ [][Next]_vars

SpecCount == InitCount /\ [][Next]_vars

SpecOrder == InitOrder /\ [][Next]_vars

\* ---------------------------------------------------------------- chairman prompt
RECURSIVE JoinBy(_, _)
JoinBy(sections, sep) ==
    IF sections = <<>> THEN <<>>
    ELSE IF Len(sections) = 1 THEN sections[1]
    ELSE sections[1] \o sep \o JoinBy(Tail(sections), sep)

AnswersBlockNumbered(list) ==
    JoinBy([i \in 1..Len(list) |->
               <<"**", "Model ", ToString(i), ":**", "<nl>">> \o list[i].answer],
           <<"<nl>", "<nl>">>)

\* council.py:272-274
AnswersBlock(list) ==
    JoinBy([i \in 1..Len(list) |->
               <<"**", list[i].label, ":**", "<nl>">> \o list[i].answer],
           <<"<nl>", "<nl>">>)

\* council.py:286-288
ReviewsBlock(list) ==
    JoinBy([i \in 1..Len(list) |->
               <<"**", list[i].label, "'s review of others:**", "<nl>">> \o list[i].review],
           <<"<nl>", "<nl>">>)

ChairmanPromptAlways(list, revs, fast_mode) ==
    <<"<intro>", "<initiative>", "---", "**INDIVIDUAL STRATEGIC PLANS:**">>
    \o AnswersBlock(list) \o <<"---">>
    \o (IF ~fast_mode /\ ~revs.none
        THEN <<"**PEER REVIEWS:**">> \o ReviewsBlock(revs.items) \o <<"---">>
        ELSE <<>>)
    \o <<"<instructions>">>

\* council.py:276-350: the user message of the chairman call; reviews is
\* the [none, items] value run_council passes
ChairmanPrompt(list, revs, fast_mode) ==
    <<"<intro>", "<initiative>", "---", "**INDIVIDUAL STRATEGIC PLANS:**">>
    \o AnswersBlock(list) \o <<"---">>
    \o (IF ~fast_mode /\ ~revs.none /\ revs.items # <<>>
        THEN <<"**PEER REVIEWS:**">> \o ReviewsBlock(revs.items) \o <<"---">>
        ELSE <<>>)
    \o <<"<instructions>">>

\* ---------------------------------------------------------------- anonymize_answers
\* council.py:163: others = [a for a in answers if a["id"] != exclude_id]
OthersAll(list, exclude_id) == list

Others(list, exclude_id) == SelectSeq(list, LAMBDA a : a.id # exclude_id)

ShufflesInOrder(list) == {list}

ShufflesWithRepeats(list) == [1..Len(list) -> {list[i] : i \in 1..Len(list)}]

\* council.py:165: random.shuffle(others) may leave the list in any order
Shuffles(list) ==
    {[i \in 1..Len(list) |-> list[p[i]]] : p \in Permutations(1..Len(list))}

ListAfterShuffleInPlace(list, others) ==
    [i \in 1..Len(list) |-> list[Len(list) + 1 - i]]

\* council.py:163-165: others is a list of its own, so shuffling it leaves
\* the list that was passed in as it was
ListAfterShuffle(list, others) == list

\* chr(65 + i), i from 0 (council.py:166)
Letters == <<"A", "B", "C", "D">>

\* f"**{label}:**\n{other['answer']}" with label = f"Model {chr(65 + i)}"
\* (council.py:166-169)
Section(i, other) == <<"**", "Model ", Letters[i], ":**", "<nl>">> \o other.answer

\* the text "\n\n---\n\n" that sections are joined with (council.py:170)
Rule == "<rule>"

RECURSIVE Join(_)
Join(sections) ==
    IF sections = <<>> THEN <<>>
    ELSE IF Len(sections) = 1 THEN sections[1]
    ELSE sections[1] \o <<Rule>> \o Join(Tail(sections))

\* council.py:166-170, for the list as shuffled
Anonymized(others) == Join([i \in 1..Len(others) |-> Section(i, others[i])])

\* the texts anonymize_answers(answers, exclude_id) may return
anonymize_answers(list, exclude_id) ==
    {Anonymized(others) : others \in Shuffles(Others(list, exclude_id))}

\* Stage 2 seen from its start: Stage 1 has returned with a quorum, the
\* review_one tasks exist, and what each of them builds is kept
AnonTexts == {<<"a">>, <<"a", "b">>}

Settled(k, outcome) ==
    LET cs == CreatedCall(Tag(COUNCILORS[k].label, COUNCILORS[k].id)) IN
    IF outcome = <<"failed">>
    THEN FailWith([cs EXCEPT !.nreq = MAX_RETRIES + 1], "HTTP 500", MAX_RETRIES + 1)
    ELSE [cs EXCEPT !.pc = "done", !.ok = TRUE, !.text = outcome, !.nreq = 1]

NotShown == [built |-> FALSE, order |-> <<>>, bundle |-> <<>>]

InitAnon ==
    /\ pc = "stage2"
    /\ fast = FALSE
    /\ \E outcomes \in [Roster -> AnonTexts \cup {<<"failed">>}] :
          LET cs == [k \in Roster |-> Settled(k, outcomes[k])] IN
          /\ ~BelowQuorum(Stage1Successes(cs))
          /\ answers = Stage1Successes(cs)
          /\ all_errors = Stage1Errors(cs)
          /\ calls = Stage2Tasks(Stage1Successes(cs))
          /\ shown = [k \in 1..Len(Stage1Successes(cs)) |-> NotShown]
    /\ reviews = [none |-> TRUE, items |-> <<>>]
    /\ output = [kind |-> "none"]
    /\ counting = FALSE
    /\ issued = [s1 |-> 0, s2 |-> 0, s3 |-> 0]
    /\ finished = Untracked

\* the review_one task of answers[k] runs to its first await: it builds the
\* anonymized view of the other answers and the prompt, and call_model posts
\* the request (council.py:189-207, 215)
ReviewOne(k) ==
    /\ pc = "stage2"
    /\ Start(k)
    /\ \E others \in Shuffles(Others(answers, answers[k].id)) :
          /\ shown' = [shown EXCEPT ![k] =
                           [built |-> TRUE,
                            order |-> [i \in 1..Len(others) |-> others[i].id],
                            bundle |-> Anonymized(others)]]
          /\ answers' = ListAfterShuffle(answers, others)
    /\ UNCHANGED <<pc, fast, reviews, all_errors, output, counting, issued, finished>>

NextAnon == \E k \in DOMAIN calls : ReviewOne(k)

SpecAnon == InitAnon /\ [][NextAnon]_vars

\* ---------------------------------------------------------------- stage3_chairman alone
\* JSON objects a chairman may send: the asked-for shape in part, an empty
\* object, a nested one, wrong field shapes, and the keys of another schema
Objects ==
    { GoodObject,
      <<"{", "}">>,
      <<"{", "\"confidence\"", ":", "{", "\"risks\"", ":", "[", "]", "}", "}">>,
      <<"{", "\"executive_summary\"", ":", "7", ",", "\"risks\"", ":", "\"text\"", "}">>,
      <<"{", "\"confidence\"", ":", "null", ",", "\"phases\"", ":", "null", ",",
        "\"confidence_note\"", ":", "true", "}">>,
      <<"{", "\"final_answer\"", ":", "\"text\"", ",", "\"consensus_points\"", ":",
        "[", "\"text\"", "]", ",", "\"confidence\"", ":", "\"high\"", "}">> }

\* JSON texts that are no object
NonObjects == { <<"[", "\"text\"", "]">>, <<"[", "]">>, <<"\"text\"">>, <<"7">>, <<"true">> }

CleanReplies == Objects \cup NonObjects \cup {<<"null">>}

\* a fenced block, with the tag json or without a tag, alone or amid prose
FencedForms(j) ==
    { <<"<fence>", "json", " ">> \o j \o <<" ", "<fence>">>,
      <<"<fence>", " ">> \o j \o <<" ", "<fence>">>,
      <<"<fence>">> \o j \o <<"<fence>">>,
      <<"word", " ", "<fence>", "json", " ">> \o j \o <<" ", "<fence>", " ", "word">> }

FencedReplies == UNION {FencedForms(j) : j \in Objects \cup NonObjects}

\* prose, then a JSON object at the end
PreambleForms(j) == { <<"word", " ">> \o j, <<"word", " ", "word", ":", " ">> \o j }

PreambleReplies == UNION {PreambleForms(j) : j \in Objects}

ProseReplies ==
    { <<"word">>, <<"word", " ", "word">>, <<"word", ":", " ", "7">>, <<"7", " ", "word">> }

\* a JSON object cut short
TruncatedReplies ==
    UNION {{SubSeq(j, 1, n) : n \in 1..(Len(j) - 1)} : j \in Objects}

\* a fence with another tag, a fence around prose before an object, a brace
\* in the prose, prose after the object, an unclosed fence
OddReplies ==
    UNION {{ <<"<fence>", "js", " ">> \o j \o <<" ", "<fence>">>,
             <<"<fence>", "word", "<fence>", " ">> \o j,
             <<"word", " ", "{", " ">> \o j,
             j \o <<" ", "word">>,
             <<"<fence>", "json", " ">> \o j
           } : j \in Objects}

RawReplies ==
    CleanReplies \cup FencedReplies \cup PreambleReplies \cup ProseReplies
    \cup TruncatedReplies \cup OddReplies

\* the chairman request is in flight, after a Stage 1 and a Stage 2 in which
\* every call succeeded
InitParse ==
    /\ pc = "stage3"
    /\ fast \in BOOLEAN
    /\ answers = Stage1Successes([k \in Roster |-> Settled(k, <<AnswerTokens[k]>>)])
    /\ reviews = IF fast THEN [none |-> TRUE, items |-> <<>>]
                 ELSE [none |-> FALSE,
                       items |-> [i \in 1..Len(answers) |->
                                     WithReview(answers[i], <<ReviewTokens[answers[i].id]>>)]]
    /\ calls = <<StartCall(CreatedCall(Tag(CHAIRMAN.label, CHAIRMAN.id)))>>
    /\ all_errors = <<>>
    /\ output = [kind |-> "none"]
    /\ counting = FALSE
    /\ issued = [s1 |-> 0, s2 |-> 0, s3 |-> 0]
    /\ finished = Untracked
    /\ shown = <<>>

\* the chairman's reply arrives in a well-formed response
ReceiveReply ==
    /\ pc = "stage3"
    /\ \E reply \in RawReplies : Receive(1, OkResponse(reply))
    /\ UNCHANGED <<pc, fast, answers, reviews, all_errors, output, counting, shown, issued, finished>>

NextParse == ReceiveReply \/ Finish3

SpecParse == InitParse /\ [][NextParse]_vars

\* ---------------------------------------------------------------- council_pdf.validate_input
\* _STR_FIELDS (council_pdf.py:59-65)
StrFieldDefaults ==
    [question |-> <<"Unknown question">>, final_answer |-> <<"No answer provided.">>,
     confidence |-> <<"unknown">>, confidence_note |-> <<>>, chairman |-> <<"Unknown">>]

\* council_pdf.py:70
PdfListFields == {"consensus_points", "disagreements", "council", "individual_answers"}

\* council_pdf.py:75-78
PdfMetaDefaults ==
    [stage2_skipped |-> JBool(FALSE), run_started_at |-> JStr(<<>>),
     run_duration_seconds |-> JStr(<<>>), errors |-> JList(<<>>)]

\* dict.get(key, default)
GetOr(f, key, default) == IF key \in DOMAIN f THEN f[key] ELSE default

\* council_pdf.py:56-79, for data that is a dict with the fields f
Cleaned(f) ==
    [key \in DOMAIN StrFieldDefaults \cup PdfListFields \cup DOMAIN PdfMetaDefaults |->
        IF key \in DOMAIN StrFieldDefaults
        THEN JStr(PyStr(GetOr(f, key, JStr(StrFieldDefaults[key]))))
        ELSE IF key \in PdfListFields
        THEN (IF GetOr(f, key, JList(<<>>)).t = "list" THEN GetOr(f, key, JList(<<>>))
              ELSE JList(<<>>))
        ELSE GetOr(f, key, PdfMetaDefaults[key])]

\* the inputs: objects in which each of a few fields is missing, a text, a
\* list, a number or null, and a value that is no object
PdfKeys == {"question", "executive_summary", "disagreements", "deliverables", "council"}

PdfValues == {JStr(<<"text">>), JList(<<JNum(7)>>), JNum(7), JNull}

PdfInputs ==
    UNION {{JObj(f) : f \in [present -> PdfValues]} : present \in SUBSET PdfKeys}
    \cup {JList(<<>>)}

InitPdf ==
    /\ pc = "validate"
    /\ \E data \in PdfInputs : output = [kind |-> "data", data |-> data]
    /\ fast = FALSE
    /\ calls = <<>>
    /\ answers = <<>>
    /\ reviews = [none |-> TRUE, items |-> <<>>]
    /\ all_errors = <<>>
    /\ counting = FALSE
    /\ issued = [s1 |-> 0, s2 |-> 0, s3 |-> 0]
    /\ finished = Untracked
    /\ shown = <<>>

\* validate_input(data): sys.exit(1) for data that is no dict, the cleaned
\* dict otherwise (council_pdf.py:49-79)
Validate ==
    /\ pc = "validate"
    /\ IF ~IsDict(output.data)
       THEN /\ pc' = "exited"
            /\ output' = [kind |-> "SystemExit", data |-> output.data]
       ELSE /\ pc' = "validated"
            /\ output' = [kind |-> "cleaned", data |-> output.data,
                          cleaned |-> Cleaned(output.data.f)]
    /\ UNCHANGED <<fast, calls, answers, reviews, all_errors, counting, shown, issued, finished>>

NextPdf == Validate

SpecPdf == InitPdf /\ [][NextPdf]_vars

\* ---------------------------------------------------------------- council.py | council_pdf.py
\* the report as council.py prints it and council_pdf.py loads it
\* (council.py:506, council_pdf.py:516-522): a JSON object; the start time
\* and the duration are kept as the opaque texts the report has for them
DumpReport(report) ==
    JObj([key \in DOMAIN report |->
            CASE key \in SchemaKeys -> report[key]
              [] key \in {"question", "chairman", "run_started_at", "run_duration_seconds"}
                    -> JStr(<<report[key]>>)
              [] key = "stage2_skipped" -> JBool(report[key])
              [] key = "council"
                    -> JList([i \in 1..Len(report[key]) |-> JStr(<<report[key][i]>>)])
              [] key = "individual_answers"
                    -> JList([i \in 1..Len(report[key]) |->
                                 JObj([model |-> JStr(<<report[key][i].model>>),
                                       answer |-> JStr(report[key][i].answer)])])
              [] key = "peer_reviews"
                    -> JList([i \in 1..Len(report[key]) |->
                                 JObj([reviewer |-> JStr(<<report[key][i].reviewer>>),
                                       review |-> JStr(report[key][i].review)])])
              [] key = "errors"
                    -> JList([i \in 1..Len(report[key]) |->
                                 JObj([model |-> JStr(<<report[key][i].model>>),
                                       error |-> JStr(report[key][i].error)])])])

\* python3 council.py "..." | python3 council_pdf.py: the report run_council
\* returned becomes the data validate_input is called with
PipeToPdf ==
    /\ pc = "returned"
    /\ pc' = "validate"
    /\ output' = [kind |-> "data", data |-> DumpReport(output.report)]
    /\ UNCHANGED <<fast, calls, answers, reviews, all_errors, counting, shown, issued, finished>>

\* the chairman's reply, the report made of it, and the renderer's view of it
NextRender == ReceiveReply \/ Finish3 \/ PipeToPdf \/ Validate

SpecRender == InitParse /\ [][NextRender]_vars

\* ================================================================ claims
\* the councilors whose Stage 1 call returned success, read off the settled
\* calls of Stage 1
SucceededIn1 == {k \in Roster : calls[k].pc = "done" /\ calls[k].ok}

IdsOf(list) == [i \in 1..Len(list) |-> list[i].id]

\* the ids of a set of roster positions, in roster order
RECURSIVE RosterIds(_, _)
RosterIds(K, from) ==
    IF from > Len(COUNCILORS) THEN <<>>
    ELSE (IF from \in K THEN <<COUNCILORS[from].id>> ELSE <<>>) \o RosterIds(K, from + 1)

QuorumError == pc = "raised" /\ output.kind = "RuntimeError"

\* the step in which the Stage 1 gather returns
C1_GateStep ==
    pc = "stage1" /\ pc' # "stage1" =>
        /\ Cardinality(SucceededIn1) < 2 => pc' = "raised" /\ output'.kind = "RuntimeError"
        /\ Cardinality(SucceededIn1) >= 2 =>
              /\ pc' = IF fast THEN "stage3" ELSE "stage2"
              /\ IdsOf(answers') = RosterIds(SucceededIn1, 1)
              /\ ~fast => [k \in DOMAIN calls' |-> calls'[k].tag]
                            = [k \in 1..Len(answers') |-> answers'[k].label]

\* C1: quorum gate.  When the Stage 1 gather returns with fewer than
\* MIN_QUORUM (2) successes the run raises the quorum error, and a run that
\* raised it has issued no review request and no chairman request; with 2 or
\* more successes the run proceeds, the answers are exactly the councilors
\* that succeeded (in roster order), Stage 2 reviews exactly these, and
\* Stage 2 and Stage 3 leave the answers as Stage 1 returned them.
C1_QuorumGate ==
    /\ [](QuorumError => issued.s2 = 0 /\ issued.s3 = 0 /\ calls = <<>>)
    /\ [][C1_GateStep]_vars
    /\ [][(pc = "stage2" \/ pc = "stage3") => (answers' = answers)]_vars

\* scenario D: one councilor of four succeeded and the run raised
C1_Witness == QuorumError /\ output.succeeded = 1 /\ issued.s1 >= 4

\* ---------------------------------------------------------------- call_model claims
\* the lone invocation, and the last thing client.post gave it
Solo == calls[1]
LastSeen == Solo.seen[Len(Solo.seen)]

\* HTTP 429, HTTP 5xx or a transport exception
Transient(r) == r.kind = "raise" \/ (r.kind = "resp" /\ (r.status = 429 \/ r.status >= 500))

\* a 4xx status other than 429
ClientError(r) == r.kind = "resp" /\ r.status \in 400..499 /\ r.status # 429

\* the body holds a non-empty list of choices whose first entry has a
\* message with text content
HasTextContent(b) ==
    /\ b.t = "obj"
    /\ "choices" \in DOMAIN b.f
    /\ b.f.choices.t = "list"
    /\ Len(b.f.choices.items) >= 1
    /\ b.f.choices.items[1].t = "obj"
    /\ "message" \in DOMAIN b.f.choices.items[1].f
    /\ b.f.choices.items[1].f.message.t = "obj"
    /\ "content" \in DOMAIN b.f.choices.items[1].f.message.f
    /\ b.f.choices.items[1].f.message.f.content.t = "str"

TextContent(b) == b.f.choices.items[1].f.message.f.content.s

WellFormed(r) == r.kind = "resp" /\ r.status = 200 /\ HasTextContent(r.body)

\* a 200 response that is structurally invalid without raising: choices
\* missing, null, empty or not a list, or message content missing or null
Malformed200(r) ==
    /\ r.kind = "resp"
    /\ r.status = 200
    /\ r.body \in {JObj(<<>>), JObj([choices |-> JNull]), JObj([choices |-> JList(<<>>)]),
                   JObj([choices |-> JStr(<<"a">>)]),
                   JObj([choices |-> JList(<<JObj(<<>>)>>)]), ChoicesBody(JNull)}

Spaces(n) == [i \in 1..n |-> " "]

\* text is content without its leading and trailing whitespace
TrimOf(text, content) ==
    /\ text = <<>> \/ (text[1] # " " /\ text[Len(text)] # " ")
    /\ \E i, j \in 0..Len(content) : content = Spaces(i) \o text \o Spaces(j)

\* C3: when every attempt of the invocation met a transient failure (429,
\* 5xx or a transport exception), the invocation issued exactly
\* MAX_RETRIES + 1 requests and returned a failure whose message holds the
\* caller's tag (its label, or the model when the label is empty).
C3_RetryExhausted ==
    (Solo.pc = "done" /\ \A i \in 1..Len(Solo.seen) : Transient(Solo.seen[i])) =>
        /\ Solo.nreq = MAX_RETRIES + 1
        /\ Len(Solo.seen) = MAX_RETRIES + 1
        /\ ~Solo.ok
        /\ Solo.tag \in {"Test", SoloModel}
        /\ \E i \in 1..Len(Content(Solo)) : Content(Solo)[i] = Solo.tag

\* three transient failures of different kinds, then the failure is returned
C3_Witness ==
    /\ Solo.pc = "done" /\ ~Solo.ok /\ Solo.tag = "Test"
    /\ Solo.seen = <<Response(429, NoHeader, NotJson), Raised("ReadTimeout"),
                     Response(503, NoHeader, NotJson)>>

\* C4: an invocation issues at least 1 and at most MAX_RETRIES + 1 (3)
\* requests, and none after a success: once it has a success it has returned,
\* with as many requests issued as responses received, the last of them the
\* success.
C4_AttemptBudget ==
    /\ Solo.nreq <= MAX_RETRIES + 1
    /\ Solo.nreq <= 3
    /\ Solo.pc # "created" => Solo.nreq >= 1
    /\ Solo.pc = "done" => Solo.nreq = Len(Solo.seen)
    /\ Solo.ok => Solo.pc = "done" /\ WellFormed(LastSeen)
    /\ \A i \in 1..Len(Solo.seen) - 1 : AttemptOutcome(Solo.seen[i], i - 1).kind # "ok"

\* a success on the last attempt of the budget
C4_Witness == Solo.pc = "done" /\ Solo.ok /\ Solo.nreq = 3

\* C5: after a transient failure on the first attempt the invocation goes
\* on to a second attempt, and when that one gets a well-formed response it
\* returns success with the response text (trimmed), having made exactly
\* two attempts.
C5_RetryThenSuccess ==
    /\ (Len(Solo.seen) = 1 /\ Transient(Solo.seen[1])) =>
            Solo.pc \in {"sleep", "post"} /\ ~Solo.ok
    /\ (Len(Solo.seen) >= 2 /\ Transient(Solo.seen[1]) /\ WellFormed(Solo.seen[2])) =>
            /\ Solo.pc = "done" /\ Solo.ok
            /\ Solo.nreq = 2 /\ Len(Solo.seen) = 2
            /\ TrimOf(Solo.text, TextContent(Solo.seen[2].body))

\* HTTP 429 with Retry-After: 7, then a completion
C5_Witness ==
    /\ Solo.pc = "done" /\ Solo.ok /\ Solo.nreq = 2 /\ Solo.wait = 7
    /\ Solo.seen = <<Response(429, <<"7">>, NotJson), OkResponse(<<"a">>)>>
    /\ Solo.text = <<"a">>

\* C6: a response with a client-error status makes the invocation return
\* failure at once, whatever is left of the attempt budget.
C6_ClientErrorImmediate ==
    (Len(Solo.seen) >= 1 /\ ClientError(LastSeen)) => Solo.pc = "done" /\ ~Solo.ok

\* C7: the invocation returns success only when the response of its last
\* attempt has a 2xx status and holds a non-empty list of choices whose
\* first entry has non-null message content, and the text returned is that
\* content trimmed.
C7_SuccessOnlyIfValid ==
    Solo.ok =>
        /\ Solo.pc = "done"
        /\ LastSeen.kind = "resp"
        /\ LastSeen.status \in 200..299
        /\ HasTextContent(LastSeen.body)
        /\ TrimOf(Solo.text, TextContent(LastSeen.body))

\* a success whose text is shorter than the content received
C7_Witness ==
    /\ Solo.ok
    /\ TextContent(LastSeen.body) = <<"a", " ">>
    /\ Solo.text = <<"a">>

\* C8 as written: a structurally invalid 200 response ends the invocation,
\* no further request follows it.
C8_MalformedTerminal ==
    (Len(Solo.seen) >= 1 /\ Malformed200(LastSeen)) => Solo.pc = "done"

\* C8 as amended: a structurally invalid 200 response is retried like every
\* other error.  While attempts remain the invocation sleeps 2 * attempt
\* seconds and issues the next request; only on the last attempt it returns
\* failure, with the validation message.
C8_MalformedRetried ==
    (Len(Solo.seen) >= 1 /\ Malformed200(LastSeen)) =>
        IF Len(Solo.seen) <= MAX_RETRIES
        THEN /\ Solo.pc \in {"sleep", "post"}
             /\ ~Solo.ok
             /\ Solo.pc = "sleep" => Solo.wait = 2 * Len(Solo.seen)
             /\ Solo.pc = "post" => Solo.nreq = Len(Solo.seen) + 1
        ELSE /\ Solo.pc = "done"
             /\ ~Solo.ok
             /\ Solo.error \in {"Invalid API response: missing or empty choices",
                                "Invalid API response: missing message content"}
             /\ Content(Solo) = <<Solo.tag, ": ", Solo.error>>

\* a second request is in flight after an empty list of choices
C8_Witness ==
    /\ Solo.pc = "post" /\ Solo.nreq = 2
    /\ Solo.seen = <<Response(200, NoHeader, JObj([choices |-> JList(<<>>)]))>>

\* ---------------------------------------------------------------- run_council claims
\* C2: the only error a run ends with is the quorum error of Stage 1; with
\* MIN_QUORUM or more successful councilors run_council returns a report
\* whatever the reviewers and the chairman reply.
C2_OnlyQuorumFatal ==
    pc = "raised" => output.kind = "RuntimeError" /\ output.succeeded < MIN_QUORUM

InFlight == {k \in DOMAIN calls : calls[k].pc \in {"post", "sleep"}}

Requests(cs) == [k \in DOMAIN cs |-> cs[k].nreq]

\* the tasks alive belong to the running stage and to no other
C9_OneStageAlive ==
    /\ pc \in {"start", "raised", "returned"} => calls = <<>>
    /\ pc = "stage1" => [k \in DOMAIN calls |-> calls[k].tag]
                            = [k \in Roster |-> COUNCILORS[k].label]
    /\ pc = "stage2" => /\ ~fast
                        /\ [k \in DOMAIN calls |-> calls[k].tag]
                            = [k \in 1..Len(answers) |-> answers[k].label]
    /\ pc = "stage3" => /\ Len(calls) = 1 /\ calls[1].tag = CHAIRMAN.label
                        /\ fast <=> reviews.none

C9_StageStep ==
    /\ pc # pc' => InFlight = {} /\ \A k \in DOMAIN calls : calls[k].pc = "done"
    /\ pc # pc' => \A k \in DOMAIN calls' : calls'[k].pc = "created" /\ calls'[k].nreq = 0
    /\ pc' = "stage2" /\ pc # "stage2" => pc = "stage1"
    /\ pc' = "stage3" /\ pc # "stage3" => pc = "stage2" \/ (pc = "stage1" /\ fast)
    /\ Requests(calls') # Requests(calls) /\ pc = pc' =>
            /\ DOMAIN calls' = DOMAIN calls
            /\ \A k \in DOMAIN calls : calls'[k].tag = calls[k].tag

\* C9: stages are strictly sequential.  The tasks alive are those of the
\* running stage only; a stage is left only when every one of its calls has
\* settled, none in flight; the tasks of the next stage start without a
\* request issued; Stage 2 follows Stage 1, Stage 3 follows Stage 2 or, when
\* Stage 2 is skipped, Stage 1; and a request is issued only by a task of
\* the running stage.
C9_Sequential == []C9_OneStageAlive /\ [][C9_StageStep]_vars

\* the chairman request is in flight after a Stage 2 in which one review
\* call exhausted its attempts
C9_Witness ==
    /\ pc = "stage3" /\ ~fast /\ calls[1].pc = "post"
    /\ Len(answers) = 4 /\ Len(reviews.items) = 3

Count(list, Test(_)) == Cardinality({i \in 1..Len(list) : Test(list[i])})

C10_Launched ==
    pc = "stage1" =>
        /\ DOMAIN calls = Roster
        /\ \A k \in Roster : calls[k].tag = COUNCILORS[k].label

C10_Partition(successes, errors) ==
    /\ Len(successes) + Len(errors) = Len(COUNCILORS)
    /\ \A k \in Roster :
          LET Mine(e) == e.id = COUNCILORS[k].id
              MineToo(e) == e.model = COUNCILORS[k].label IN
          IF calls[k].ok
          THEN /\ Count(successes, Mine) = 1
               /\ Count(errors, MineToo) = 0
               /\ \A i \in 1..Len(successes) : Mine(successes[i]) =>
                     /\ successes[i].label = COUNCILORS[k].label
                     /\ successes[i].answer = calls[k].text
          ELSE /\ Count(successes, Mine) = 0
               /\ Count(errors, MineToo) = 1
               /\ \A j \in 1..Len(errors) : MineToo(errors[j]) =>
                     errors[j].error = FailureText(calls[k])

C10_ReturnStep ==
    pc = "stage1" /\ pc' # "stage1" =>
        /\ \A k \in Roster : calls[k].pc = "done"
        /\ pc' \in {"stage2", "stage3"} => C10_Partition(answers', all_errors')
        /\ pc' = "raised" =>
              Len(output'.errors) + output'.succeeded = Len(COUNCILORS)

\* C10: Stage 1 has one call_model invocation per configured councilor;
\* it returns only after all of them have settled; each councilor is then in
\* exactly one of the two lists, the successes with its own answer or the
\* errors with its label and the reason of its failure, and the lengths of
\* the two lists add up to the size of the roster.
C10_Stage1Partition == []C10_Launched /\ [][C10_ReturnStep]_vars

\* the first and the third councilor failed, the other two answered
C10_Witness ==
    /\ pc = "stage2"
    /\ IdsOf(answers) = <<COUNCILORS[2].id, COUNCILORS[4].id>>
    /\ Len(all_errors) = 2
    /\ all_errors[1].model = COUNCILORS[1].label

\* ---------------------------------------------------------------- anonymize_answers claims
Contains(text, part) ==
    \E i \in 0..(Len(text) - Len(part)) : SubSeq(text, i + 1, i + Len(part)) = part

\* the pieces of text between the rules
RECURSIVE SplitAtRule(_, _)
SplitAtRule(text, piece) ==
    IF text = <<>> THEN <<piece>>
    ELSE IF Head(text) = "<rule>" THEN <<piece>> \o SplitAtRule(Tail(text), <<>>)
    ELSE SplitAtRule(Tail(text), Append(piece, Head(text)))

SectionsOf(bundle) == IF bundle = <<>> THEN <<>> ELSE SplitAtRule(bundle, <<>>)

Built == {k \in DOMAIN shown : shown[k].built}

Peers(k) == {j \in 1..Len(answers) : answers[j].id # answers[k].id}

\* C11 as written: the bundle of a reviewer never contains the text of that
\* reviewer's own answer.
C11_NeverOwnText ==
    \A k \in Built : ~Contains(shown[k].bundle, answers[k].answer)

\* C11 as amended: the reviewer's own entry is left out by councilor id.  The
\* bundle has one section per other surviving answer and none made from the
\* reviewer's entry, so it contains the reviewer's answer text only when
\* that text also occurs in the answer of another councilor.
C11_OwnEntryExcluded ==
    \A k \in Built :
        /\ \A i \in 1..Len(shown[k].order) : shown[k].order[i] # answers[k].id
        /\ Len(SectionsOf(shown[k].bundle)) = Len(answers) - 1
        /\ Contains(shown[k].bundle, answers[k].answer) =>
              \E j \in Peers(k) : Contains(answers[j].answer, answers[k].answer)

\* the second councilor gave the same answer as the first, who reviews
C11_Witness ==
    /\ 1 \in Built
    /\ answers[2].answer = answers[1].answer
    /\ Contains(shown[1].bundle, answers[1].answer)

\* C12: the sections of a reviewer's bundle are the other surviving answers
\* (those with another councilor id) in some order, each exactly once, and
\* section i is headed Model A, Model B, ... by its place i in that order.
C12_EveryOtherOnce ==
    \A k \in Built :
        LET secs == SectionsOf(shown[k].bundle) IN
        /\ Len(secs) = Cardinality(Peers(k))
        /\ \E f \in [1..Len(secs) -> Peers(k)] :
              /\ \A i, j \in 1..Len(secs) : f[i] = f[j] => i = j
              /\ \A i \in 1..Len(secs) :
                    /\ secs[i] = <<"**", "Model ", <<"A", "B", "C">>[i], ":**", "<nl>">>
                                    \o answers[f[i]].answer
                    /\ shown[k].order[i] = answers[f[i]].id

\* the second councilor is shown the fourth, the first and the third
C12_Witness ==
    /\ 2 \in Built
    /\ shown[2].order = <<COUNCILORS[4].id, COUNCILORS[1].id, COUNCILORS[3].id>>

IdentityTokens ==
    UNION {{COUNCILORS[k].id, COUNCILORS[k].label, COUNCILORS[k].role} : k \in Roster}

\* the same run with the texts of the answers handed round among the peers
\* of reviewer k
Reauthored(list, k, q) ==
    [i \in 1..Len(list) |-> [list[i] EXCEPT !.answer = list[q[i]].answer]]

\* C13: a bundle holds no id, label or role of a councilor, and the bundles
\* a reviewer may be sent are the same whichever of its peers wrote which of
\* the answer texts.
C13_NoIdentity ==
    \A k \in DOMAIN shown :
        /\ shown[k].built =>
              \A i \in 1..Len(shown[k].bundle) : shown[k].bundle[i] \notin IdentityTokens
        /\ shown[k].built =>
              shown[k].bundle \in anonymize_answers(answers, answers[k].id)
        /\ \A q \in Permutations(1..Len(answers)) :
              q[k] = k =>
                 anonymize_answers(Reauthored(answers, k, q), answers[k].id)
                    = anonymize_answers(answers, answers[k].id)

\* the first councilor reviews three peers whose answers are not all alike
C13_Witness ==
    /\ 1 \in Built
    /\ Len(answers) = 4
    /\ answers[2].answer # answers[3].answer

\* the places, in the list of its peers, of the answers reviewer k is shown
PermOf(k) ==
    LET peers == Others(answers, answers[k].id) IN
    [i \in 1..Len(shown[k].order) |->
        CHOOSE j \in 1..Len(peers) : peers[j].id = shown[k].order[i]]

\* C14: within one Stage 2 run no two reviewers are shown their peers under
\* the same permutation.
C14_PermutationsDiffer ==
    \A j, k \in Built : j # k => PermOf(j) # PermOf(k)

\* ---------------------------------------------------------------- Stage 2 and 3 claims
\* the ids of list's entries at the places in K, in the order of the list
RECURSIVE IdsAt(_, _, _)
IdsAt(list, K, from) ==
    IF from > Len(list) THEN <<>>
    ELSE (IF from \in K THEN <<list[from].id>> ELSE <<>>) \o IdsAt(list, K, from + 1)

ReviewedOk == {k \in 1..Len(answers) : calls[k].ok}

C15_GatherStep ==
    pc = "stage2" /\ pc' # "stage2" =>
        /\ pc' = "stage3"
        /\ output' = output
        /\ ~reviews'.none
        /\ IdsOf(reviews'.items) = IdsAt(answers, ReviewedOk, 1)
        /\ \A k \in ReviewedOk : \E i \in 1..Len(reviews'.items) :
              /\ reviews'.items[i].id = answers[k].id
              /\ reviews'.items[i].review = calls[k].text
        /\ Len(all_errors') = Len(all_errors) + Len(answers) - Cardinality(ReviewedOk)
        /\ Len(calls') = 1
        /\ calls'[1].tag = CHAIRMAN.label
        /\ calls'[1].pc = "created"

\* C15: Stage 2 has no quorum gate.  Whatever the review calls returned,
\* all failures included, Stage 2 is left for Stage 3 and for nothing else,
\* no exception is raised, the successful reviews are handed on in the
\* order of the answers, one error is recorded per failed review, and the
\* chairman call is created; the quorum error is only ever raised with no
\* review collected.
C15_NoGateInStage2 ==
    /\ [](pc = "raised" /\ output.kind = "RuntimeError" => reviews.none)
    /\ [][C15_GatherStep]_vars

\* every review failed and the chairman request is in flight
C15_Witness ==
    /\ pc = "stage3" /\ ~fast /\ ~reviews.none
    /\ reviews.items = <<>>
    /\ Len(all_errors) = 4
    /\ calls[1].pc = "post"

\* the councilors with no entry among the answers
FailedIn1 == {k \in Roster : \A i \in 1..Len(answers) : answers[i].id # COUNCILORS[k].id}

TokensOf(text) == {text[i] : i \in 1..Len(text)}

\* what a failed councilor could have contributed: its name, the answer the
\* transport would have given for it, and the text of its error entry
TracesOf(k) ==
    {COUNCILORS[k].label, COUNCILORS[k].id, AnswerTokens[k],
     ": ", "HTTP 500", " after ", " attempts"}

LabelsOf(list) == {list[i].label : i \in 1..Len(list)}

C16_Stage1Step ==
    pc = "stage1" /\ pc' \in {"stage2", "stage3"} =>
        \A k \in Roster :
            /\ calls[k].ok <=> \E i \in 1..Len(answers') : answers'[i].id = COUNCILORS[k].id
            /\ ~calls[k].ok => \E j \in 1..Len(all_errors') :
                                  all_errors'[j].model = COUNCILORS[k].label

C16_Requests ==
    pc = "stage2" =>
        /\ \A k \in DOMAIN calls : calls[k].tag \in LabelsOf(answers)
        /\ \A k \in DOMAIN calls : \A f \in FailedIn1 : calls[k].tag # COUNCILORS[f].label
        /\ \A k \in 1..Len(answers) :
              \A b \in anonymize_answers(answers, answers[k].id) :
                 \A f \in FailedIn1 : TokensOf(b) \cap TracesOf(f) = {}

C16_Prompt ==
    pc = "stage3" =>
        \A f \in FailedIn1 :
            TokensOf(ChairmanPrompt(answers, reviews, fast)) \cap TracesOf(f) = {}

C16_Report ==
    pc = "returned" =>
        LET report == output.report IN
        /\ report.individual_answers
              = [i \in 1..Len(answers) |->
                    [model |-> answers[i].label, answer |-> answers[i].answer]]
        /\ \A i \in 1..Len(report.peer_reviews) :
              report.peer_reviews[i].reviewer \in LabelsOf(answers)
        /\ \A f \in FailedIn1 :
              /\ \A i \in 1..Len(report.individual_answers) :
                    report.individual_answers[i].model # COUNCILORS[f].label
              /\ \A i \in 1..Len(report.peer_reviews) :
                    report.peer_reviews[i].reviewer # COUNCILORS[f].label
              /\ \E j \in 1..Len(report.errors) :
                    report.errors[j].model = COUNCILORS[f].label

\* C16: a councilor that failed in Stage 1 is found in the error list and
\* nowhere else.  The answers kept are those of the successful calls; review
\* requests go to councilors among the answers only; no bundle a reviewer
\* may be sent and no chairman prompt holds anything of a failed councilor;
\* and in a returned report individual_answers are the Stage 1 successes and
\* every reviewer of peer_reviews is one of them.
C16_FailedOnlyInErrors ==
    /\ [](C16_Requests /\ C16_Prompt /\ C16_Report)
    /\ [][C16_Stage1Step]_vars

\* the second councilor failed; the report has three answers and three reviews
C16_Witness ==
    /\ pc = "returned" /\ ~fast
    /\ FailedIn1 = {2}
    /\ Len(output.report.individual_answers) = 3
    /\ Len(output.report.peer_reviews) = 3
    /\ output.report.errors[1].model = COUNCILORS[2].label

\* ---------------------------------------------------------------- end-to-end claims
Total == issued.s1 + issued.s2 + issued.s3

\* every call of the running stage succeeded with its first request
AllFirstAttempt == \A k \in DOMAIN calls : calls[k].ok /\ calls[k].nreq = 1

C17_Stage1Step ==
    pc = "stage1" /\ pc' # "stage1" /\ ~fast /\ AllFirstAttempt =>
        /\ pc' = "stage2"
        /\ issued = [s1 |-> 4, s2 |-> 0, s3 |-> 0]
        /\ Len(answers') = 4

C17_Stage2Step ==
    pc = "stage2" /\ pc' # "stage2" /\ issued.s1 = 4 /\ AllFirstAttempt =>
        /\ pc' = "stage3"
        /\ issued = [s1 |-> 4, s2 |-> 4, s3 |-> 0]
        /\ Len(reviews'.items) = 4

C17_Stage3Step ==
    pc = "stage3" /\ pc' # "stage3" /\ ~fast /\ issued.s1 = 4 /\ issued.s2 = 4
                  /\ AllFirstAttempt =>
        /\ Total = 9
        /\ pc' = "returned"
        /\ Len(output'.report.individual_answers) = 4
        /\ Len(output'.report.peer_reviews) = 4
        /\ output'.report.stage2_skipped = FALSE

\* C17: with reviews enabled, when the four councilors, the four reviewers
\* and the chairman each succeed with their first request, the transport
\* sees 4 requests, then 4, then 1, 9 in all, and run_council returns a
\* report with 4 individual_answers, 4 peer_reviews and stage2_skipped false.
C17_NineCalls == [][C17_Stage1Step /\ C17_Stage2Step /\ C17_Stage3Step]_vars

C18_NoReviewInFast ==
    fast =>
        /\ pc # "stage2"
        /\ issued.s2 = 0
        /\ reviews.none
        /\ pc = "returned" =>
              /\ output.report.peer_reviews = <<>>
              /\ output.report.stage2_skipped = TRUE

C18_Stage1Step ==
    pc = "stage1" /\ pc' # "stage1" /\ fast /\ AllFirstAttempt =>
        /\ pc' = "stage3"
        /\ issued = [s1 |-> 4, s2 |-> 0, s3 |-> 0]

C18_Stage3Step ==
    pc = "stage3" /\ pc' # "stage3" /\ fast /\ issued.s1 = 4 /\ AllFirstAttempt =>
        /\ Total = 5
        /\ issued' = issued

\* C18: in fast mode Stage 2 never runs and no review request is issued; a
\* returned report has no peer_reviews and stage2_skipped true; and when the
\* four councilors and the chairman each succeed with their first request
\* the transport has seen exactly 5 requests when the run ends.
C18_FastMode == []C18_NoReviewInFast /\ [][C18_Stage1Step /\ C18_Stage3Step]_vars

\* a fast run that returned after 4 + 1 requests
C18_Witness ==
    /\ pc = "returned" /\ fast
    /\ issued = [s1 |-> 4, s2 |-> 0, s3 |-> 1]
    /\ Len(output.report.individual_answers) = 4

FailedCalls == {k \in DOMAIN calls : ~calls[k].ok}

C19_Stage1Step ==
    pc = "stage1" /\ pc' # "stage1" /\ Cardinality(FailedCalls) = 1 =>
        /\ pc' = IF fast THEN "stage3" ELSE "stage2"
        /\ Len(answers') = 3
        /\ Len(all_errors') = 1
        /\ \A k \in FailedCalls :
              /\ all_errors'[1].model = COUNCILORS[k].label
              /\ all_errors'[1].error = FailureText(calls[k])
              /\ calls[k].nreq = MAX_RETRIES + 1

C19_Stage2Step ==
    pc = "stage2" /\ pc' # "stage2" /\ FailedCalls = {} => all_errors' = all_errors

C19_Stage3Step ==
    pc = "stage3" /\ pc' = "returned" /\ calls[1].ok
                  /\ Len(answers) = 3 /\ Len(all_errors) = 1 =>
        /\ Len(output'.report.individual_answers) = 3
        /\ Len(output'.report.errors) = 1
        /\ \A f \in FailedIn1 : output'.report.errors[1].model = COUNCILORS[f].label

\* C19: when one councilor of the four fails for good in Stage 1 the run
\* goes on with three answers and one error entry, which names the failed
\* councilor; when no later call fails nothing is added to the errors, and
\* the report has exactly 3 individual_answers and exactly that 1 error.
C19_OneFailure == [][C19_Stage1Step /\ C19_Stage2Step /\ C19_Stage3Step]_vars

\* the third councilor failed and nothing else did
C19_Witness ==
    /\ pc = "returned" /\ ~fast
    /\ Len(output.report.individual_answers) = 3
    /\ Len(output.report.peer_reviews) = 3
    /\ Len(output.report.errors) = 1
    /\ output.report.errors[1].model = COUNCILORS[3].label

C20_OneChairmanCall ==
    pc = "stage3" => Len(calls) = 1 /\ calls[1].tag = CHAIRMAN.label

C20_FailureStep ==
    /\ pc # "stage3" /\ pc' = "stage3" => Len(calls') = 1 /\ calls'[1].pc = "created"
    /\ pc = "stage3" => pc' \in {"stage3", "returned", "raised"}
    /\ pc = "stage3" /\ pc' # "stage3" /\ ~calls[1].ok =>
          /\ pc' = "returned"
          /\ output'.kind = "report"
          /\ LET report == output'.report IN
             /\ report.executive_summary
                   = JStr(<<"Chairman failed to respond: ">> \o FailureText(calls[1]))
             /\ \A key \in {"deliverables", "success_criteria", "phases", "risks",
                            "moats", "strategic_priorities", "go_no_go_criteria",
                            "disagreements"} : report[key] = JList(<<>>)
             /\ report.confidence = JStr(<<"unknown">>)
             /\ report.confidence_note = JStr(<<"Chairman call failed.">>)
             /\ report.resource_considerations = JStr(<<>>)

\* C20: Stage 3 has exactly one call_model invocation, the chairman's, and
\* is entered once.  When that invocation returns a failure run_council
\* still returns a report, whose executive_summary is "Chairman failed to
\* respond: " followed by the failure text, whose list fields are all empty
\* and whose confidence is "unknown".
C20_ChairmanFailure == []C20_OneChairmanCall /\ [][C20_FailureStep]_vars

\* the chairman call exhausted its attempts after a full Stage 2
C20_Witness ==
    /\ pc = "returned" /\ ~fast
    /\ Len(output.report.peer_reviews) = 4
    /\ output.report.confidence_note = JStr(<<"Chairman call failed.">>)
    /\ Contains(output.report.executive_summary.s, <<CHAIRMAN.label, ": ", "HTTP 500">>)

\* ---------------------------------------------------------------- stage3_chairman claims
\* the reply the chairman call returned
Raw == calls[1].text

ChairmanReplied == pc = "stage3" /\ calls[1].pc = "done" /\ calls[1].ok

ListFieldNames ==
    {"deliverables", "success_criteria", "phases", "risks", "moats",
     "strategic_priorities", "go_no_go_criteria", "disagreements"}

TextFieldNames ==
    {"executive_summary", "resource_considerations", "confidence", "confidence_note"}

C21_NoJson ==
    ChairmanReplied /\ Raw \in ProseReplies \cup TruncatedReplies =>
        parse_chairman_json(Raw) = [v |-> JNull, strategy |-> 0]

C21_FallbackStep ==
    ChairmanReplied /\ pc' # "stage3" /\ parse_chairman_json(Raw).strategy = 0 =>
        /\ pc' = "returned"
        /\ output'.report.executive_summary = JStr(Raw)
        /\ \A key \in ListFieldNames : output'.report[key] = JList(<<>>)
        /\ output'.report.confidence = JStr(<<"unknown">>)
        /\ output'.report.confidence_note
              = JStr(<<"Chairman response could not be parsed as JSON.">>)

\* C21: for a reply of pure prose or of truncated JSON no strategy yields
\* JSON and parse_chairman_json returns None; and whenever no strategy
\* yields JSON stage3_chairman returns, raising nothing, the record with the
\* raw reply as executive_summary, every list field empty, confidence
\* "unknown" and the note that the response could not be parsed.
C21_DegradedFallback == []C21_NoJson /\ [][C21_FallbackStep]_vars

\* a reply cut after the first key came back as the summary
C21_Witness ==
    /\ pc = "returned"
    /\ output.report.executive_summary = JStr(<<"{", "\"executive_summary\"", ":">>)
    /\ output.report.confidence = JStr(<<"unknown">>)

\* the value of the clean JSON text GoodObject
GoodValue ==
    JObj([executive_summary |-> JStr(<<"text">>), risks |-> JList(<<JNum(7)>>),
          confidence |-> JStr(<<"high">>)])

C23_CoercionNeverFails ==
    /\ pc # "raised"
    /\ pc = "returned" =>
          /\ \A key \in ListFieldNames :
                key \in DOMAIN output.report /\ output.report[key].t = "list"
          /\ \A key \in TextFieldNames :
                key \in DOMAIN output.report /\ output.report[key].t = "str"

\* C24: the prompt of the chairman call has the PEER REVIEWS section
\* exactly when Stage 2 ran and gave at least one review; without it the
\* prompt is the introduction, the plans and the instructions, with nothing
\* standing in for the reviews; with it every review is there under the
\* label of its reviewer.
C24_ReviewSection ==
    pc = "stage3" =>
        LET prompt == ChairmanPrompt(answers, reviews, fast)
            shown_reviews == ~fast /\ ~reviews.none /\ Len(reviews.items) >= 1 IN
        /\ Contains(prompt, <<"**PEER REVIEWS:**">>) <=> shown_reviews
        /\ ~shown_reviews =>
              /\ prompt = <<"<intro>", "<initiative>", "---",
                            "**INDIVIDUAL STRATEGIC PLANS:**">>
                          \o AnswersBlock(answers) \o <<"---", "<instructions>">>
              /\ ~Contains(prompt, <<"'s review of others:**">>)
              /\ ~Contains(prompt, <<"---", "---">>)
        /\ shown_reviews =>
              \A i \in 1..Len(reviews.items) :
                 Contains(prompt, <<"**", reviews.items[i].label, "'s review of others:**",
                                    "<nl>">> \o reviews.items[i].review)

\* Stage 2 ran, every review failed, and the chairman request is in flight
C24_Witness ==
    /\ pc = "stage3" /\ ~fast /\ ~reviews.none /\ reviews.items = <<>>
    /\ calls[1].pc = "post"
    /\ ~Contains(ChairmanPrompt(answers, reviews, fast), <<"**PEER REVIEWS:**">>)

FinalAnswerReply ==
    <<"{", "\"final_answer\"", ":", "\"text\"", ",", "\"consensus_points\"", ":",
      "[", "\"text\"", "]", ",", "\"confidence\"", ":", "\"high\"", "}">>

C25_Step ==
    ChairmanReplied /\ Raw = FinalAnswerReply /\ pc' # "stage3" =>
        /\ pc' = "returned"
        /\ {"final_answer", "consensus_points", "disagreements", "confidence",
            "individual_answers", "peer_reviews", "chairman", "council",
            "stage2_skipped", "run_started_at", "run_duration_seconds", "errors"}
              \subseteq DOMAIN output'.report
        /\ output'.report.consensus_points.t = "list"

\* C25: when the chairman replies with an object holding a final_answer text
\* and a consensus_points list, the report returned has the keys
\* final_answer and consensus_points, the latter a list, next to
\* disagreements, confidence, individual_answers, peer_reviews, chairman,
\* council, stage2_skipped, run_started_at, run_duration_seconds and errors.
C25_FinalAnswerKept == [][C25_Step]_vars

\* ---------------------------------------------------------------- validate_input claims
Missing(key) == key \notin DOMAIN output.data.f

\* C26: for an input object validate_input returns a dict in which each of
\* the list fields disagreements, strategic_priorities, deliverables,
\* phases, risks, moats, council and individual_answers is present, and is
\* [] when the input has no list there, and in which a missing question is
\* "Unknown question", a missing executive_summary "No strategic plan
\* provided.", a missing confidence "unknown", a missing chairman "Unknown"
\* and a missing resource_considerations "".
C26_DefensiveLists ==
    pc = "validated" =>
        /\ \A key \in {"disagreements", "strategic_priorities", "deliverables", "phases",
                       "risks", "moats", "council", "individual_answers"} :
              /\ key \in DOMAIN output.cleaned
              /\ output.cleaned[key].t = "list"
              /\ (Missing(key) \/ output.data.f[key].t # "list") =>
                    output.cleaned[key] = JList(<<>>)
        /\ \A key \in {"question", "executive_summary", "confidence", "chairman",
                       "resource_considerations"} :
              /\ key \in DOMAIN output.cleaned
              /\ Missing(key) =>
                    output.cleaned[key]
                       = JStr(CASE key = "question" -> <<"Unknown question">>
                                [] key = "executive_summary" -> <<"No strategic plan provided.">>
                                [] key = "confidence" -> <<"unknown">>
                                [] key = "chairman" -> <<"Unknown">>
                                [] key = "resource_considerations" -> <<>>)

\* ---------------------------------------------------------------- backoff claims
\* a 429/5xx response with a Retry-After header holding a number of seconds
Hinted(r) ==
    /\ r.kind = "resp"
    /\ (r.status = 429 \/ r.status >= 500)
    /\ r.retry_after # NoHeader
    /\ \A i \in 1..Len(r.retry_after) : r.retry_after[i] \in Digits

SecondsOf(r) == IF r.retry_after = <<"7">> THEN 7 ELSE -1

\* C27: while call_model sleeps before retry number k (k attempts made so
\* far), the delay is the Retry-After seconds of the 429/5xx response just
\* received when it carries such a value, and 2 * k otherwise: after a
\* 429/5xx response without the header or with a non-numeric one, after a
\* transport exception, and on the other retried paths.
C27_BackoffDelay ==
    Solo.pc = "sleep" =>
        LET k == Len(Solo.seen) IN
        /\ k = Solo.attempt + 1
        /\ k \in 1..MAX_RETRIES
        /\ Solo.wait = IF Hinted(LastSeen) THEN SecondsOf(LastSeen) ELSE 2 * k

\* the second attempt got a 429 with Retry-After: 7 after a first attempt
\* that timed out
C27_Witness ==
    /\ Solo.pc = "sleep"
    /\ Solo.seen = <<Raised("ReadTimeout"), Response(429, <<"7">>, NotJson)>>
    /\ Solo.wait = 7


\* ---------------------------------------------------------------- error list claims
RECURSIVE EntriesAt(_, _, _)
\* one entry per call of K, in the order of list: the label of the source of
\* the call and the failure text the call returned
EntriesAt(list, K, from) ==
    IF from > Len(list) THEN <<>>
    ELSE (IF from \in K
          THEN <<[model |-> list[from].label, error |-> FailureText(calls[from])]>>
          ELSE <<>>)
         \o EntriesAt(list, K, from + 1)

C28_Stage1Step ==
    pc = "stage1" /\ pc' \in {"stage2", "stage3"} =>
        /\ all_errors = <<>>
        /\ all_errors' = EntriesAt(COUNCILORS, FailedCalls, 1)
        /\ \A k \in FailedCalls : calls[k].nreq = MAX_RETRIES + 1

C28_Stage2Step ==
    pc = "stage2" /\ pc' # "stage2" =>
        /\ Len(all_errors) = Len(COUNCILORS) - Len(answers)
        /\ all_errors' = all_errors \o EntriesAt(answers, FailedCalls, 1)
        /\ \A k \in FailedCalls : calls[k].nreq = MAX_RETRIES + 1

C28_Stage3Step ==
    /\ pc' = pc => all_errors' = all_errors
    /\ pc = "stage3" => all_errors' = all_errors
    /\ pc' = "returned" /\ pc # "returned" => output'.report.errors = all_errors

\* C28: in every returned report the errors list is the Stage 1 failures, in
\* roster order, followed by the Stage 2 failures, in the order of the
\* surviving answers: one entry per call_model invocation that failed after
\* its last attempt, made of the label of its councilor or reviewer and of the
\* failure text the invocation returned.
C28_ErrorsRecorded == [][C28_Stage1Step /\ C28_Stage2Step /\ C28_Stage3Step]_vars

\* the last councilor failed in Stage 1 and the first one failed as a
\* reviewer: the Stage 1 entry comes first
C28_Witness ==
    /\ pc = "returned"
    /\ Len(output.report.errors) = 2
    /\ output.report.errors[1]
          = [model |-> COUNCILORS[Len(COUNCILORS)].label,
             error |-> <<COUNCILORS[Len(COUNCILORS)].label, ": ", "HTTP 500",
                         " after ", "3", " attempts">>]
    /\ output.report.errors[2].model = COUNCILORS[1].label


\* ---------------------------------------------------------------- totality claims
\* what the attempt that got the last response reported
LastError == AttemptOutcome(LastSeen, Len(Solo.seen) - 1).error

C29_Handled ==
    Solo.pc = "post" =>
        /\ Len(Solo.seen) <= MAX_RETRIES
        /\ \A r \in Responses :
              LET next == OnResponse(Solo, r) IN
              /\ next.pc \in {"sleep", "done"}
              /\ next.pc = "sleep" => Len(next.seen) <= MAX_RETRIES

C29_Returned ==
    Solo.pc = "done" =>
        /\ Solo.ok =>
              /\ Content(Solo) = Solo.text
              /\ LastSeen.kind = "resp"
              /\ LastSeen.status = 200
              /\ HasTextContent(LastSeen.body)
        /\ ~Solo.ok =>
              /\ Len(Solo.seen) = MAX_RETRIES + 1
              /\ Solo.error = LastError
              /\ SubSeq(Content(Solo), 1, 3) = <<Solo.tag, ": ", LastError>>
              /\ LastSeen.kind = "raise" => Content(Solo) = <<Solo.tag, ": ", LastSeen.msg>>
              /\ LastSeen = Response(429, <<"soon">>, NotJson) =>
                    Content(Solo)
                       = <<Solo.tag, ": ", "ValueError: could not convert string to float">>
              /\ LastSeen = Response(503, NoHeader, NotJson) =>
                    Content(Solo) = <<Solo.tag, ": ", "HTTP 503", " after ", "3", " attempts">>

C29_Tagged ==
    /\ Solo.tag \in {"Test", SoloModel}
    /\ Tag("Test", SoloModel) = "Test"
    /\ Tag("", SoloModel) = SoloModel
    /\ Solo.pc \in {"created", "post", "sleep", "done"}

\* C29: call_model handles whatever client.post gives back (any status,
\* body, Retry-After header, numeric or not, or a raised exception) by
\* sleeping before another attempt or by returning, and it returns after at
\* most MAX_RETRIES + 1 responses: success with the text, or, on the final
\* attempt, a failure whose content is the tag (the label, or the model when
\* the label is empty), ": " and the error of the last attempt.
C29_Total == C29_Handled /\ C29_Returned /\ C29_Tagged

\* three different errors, the last one a Retry-After that is no number, for
\* a call without a label
C29_Witness ==
    /\ Solo.pc = "done"
    /\ ~Solo.ok
    /\ Solo.seen = <<Response(500, NoHeader, NotJson), Raised("ConnectError"),
                     Response(429, <<"soon">>, NotJson)>>
    /\ Content(Solo) = <<SoloModel, ": ", "ValueError: could not convert string to float">>


\* ---------------------------------------------------------------- fan-out claims
RECURSIVE Replay(_, _)
\* the record of a call_model invocation made with the tag that received
\* the responses seen, one per attempt, whatever else happened meanwhile
Replay(tag, seen) ==
    IF seen = <<>> THEN StartCall(CreatedCall(tag))
    ELSE LET before == Replay(tag, SubSeq(seen, 1, Len(seen) - 1)) IN
         OnResponse(IF before.pc = "sleep" THEN OnWake(before) ELSE before,
                    seen[Len(seen)])

FanOut == pc \in {"stage1", "stage2"}

\* the record of every call is the one its own responses give
C30_OwnHistory ==
    FanOut =>
        \A k \in DOMAIN calls :
            LET alone == Replay(calls[k].tag, calls[k].seen) IN
            \/ calls[k] = CreatedCall(calls[k].tag)
            \/ calls[k] = alone
            \/ alone.pc = "sleep" /\ calls[k] = OnWake(alone)

\* every call has its own attempts: a failure is returned after
\* MAX_RETRIES + 1 requests of that call, however many the others made
C30_OwnBudget ==
    FanOut =>
        \A k \in DOMAIN calls :
            /\ calls[k].nreq <= MAX_RETRIES + 1
            /\ calls[k].nreq = IF calls[k].pc = "created" THEN 0
                               ELSE calls[k].attempt + 1
            /\ calls[k].pc = "done" /\ ~calls[k].ok => calls[k].nreq = MAX_RETRIES + 1
            /\ calls[k].pc = "sleep" => calls[k].nreq <= MAX_RETRIES

\* a step of one call leaves the records of the others as they are, and a
\* result that was returned stays as it is until the stage is over; the stage
\* is over, and the results are aggregated, only when every call has returned
C30_Step ==
    FanOut =>
        /\ pc' = pc =>
              /\ DOMAIN calls' = DOMAIN calls
              /\ Cardinality({k \in DOMAIN calls : calls'[k] # calls[k]}) <= 1
              /\ \A k \in DOMAIN calls : calls[k].pc = "done" => calls'[k] = calls[k]
        /\ pc' # pc =>
              /\ \A k \in DOMAIN calls : calls[k].pc = "done"
              /\ pc = "stage1" /\ pc' # "raised" =>
                    /\ Len(answers') + Len(all_errors') = Len(COUNCILORS)
                    /\ \A i \in 1..Len(answers') :
                          \E k \in DOMAIN calls :
                              calls[k].ok /\ answers'[i].answer = Content(calls[k])
              /\ pc = "stage2" =>
                    /\ Len(reviews'.items) + Len(all_errors') = Len(COUNCILORS)
                    /\ \A i \in 1..Len(reviews'.items) :
                          \E k \in DOMAIN calls :
                              calls[k].ok /\ reviews'.items[i].review = Content(calls[k])

\* C30: within Stage 1 and within Stage 2 the record of each call_model
\* invocation (outcome, attempts made, retries left) is the one its own
\* responses determine, under every interleaving with the other invocations
\* of the stage; a step of one call changes no other call's record, a
\* returned result is not changed afterwards, and the stage's results are
\* aggregated only when every call of the stage has returned.
C30_Independent == []C30_OwnHistory /\ []C30_OwnBudget /\ [][C30_Step]_vars

\* in Stage 1 the first councilor has failed after three requests while the
\* second returned at its first and the third sleeps before its second
C30_Witness ==
    /\ pc = "stage1"
    /\ calls[1].pc = "done" /\ ~calls[1].ok /\ calls[1].nreq = 3
    /\ calls[2].pc = "done" /\ calls[2].ok /\ calls[2].nreq = 1
    /\ calls[3].pc = "sleep" /\ calls[3].nreq = 1


\* ---------------------------------------------------------------- schema coercion claims
\* the object the chairman's reply parsed to
ParsedReply == parse_chairman_json(Raw).v

C31_Step ==
    ChairmanReplied /\ ParsedReply.t = "obj" /\ pc' # "stage3" =>
        /\ pc' = "returned"
        /\ \A key \in ListFieldNames :
              output'.report[key]
                 = IF key \in DOMAIN ParsedReply.f /\ ParsedReply.f[key].t = "list"
                   THEN ParsedReply.f[key]
                   ELSE JList(<<>>)
        /\ \A key \in TextFieldNames :
              output'.report[key]
                 = IF key \notin DOMAIN ParsedReply.f \/ ParsedReply.f[key].t = "null"
                   THEN JStr(IF key = "confidence" THEN <<"unknown">> ELSE <<>>)
                   ELSE IF ParsedReply.f[key].t = "str"
                   THEN ParsedReply.f[key]
                   ELSE JStr(PyRepr(ParsedReply.f[key]))

\* C31: when the chairman's reply parses to an object, each list field of the
\* record is the reply's value if that is a list and [] if it is missing or
\* anything else; each text field is the reply's value if that is text, the
\* value stringified if it is present, not null and not text, and otherwise
\* the default of the field, "unknown" for confidence and "" for
\* executive_summary, resource_considerations and confidence_note.
C31_Coercion == [][C31_Step]_vars

\* a number for a text field and a text for a list field
C31_Witness ==
    /\ pc = "returned"
    /\ output.report.executive_summary = JStr(<<"7">>)
    /\ output.report.risks = JList(<<>>)
    /\ output.report.confidence = JStr(<<"unknown">>)
    /\ output.report.confidence_note = JStr(<<>>)

\* null for confidence and for a list field, true for confidence_note
C31_WitnessNull ==
    /\ pc = "returned"
    /\ output.report.confidence = JStr(<<"unknown">>)
    /\ output.report.confidence_note = JStr(<<"True">>)
    /\ output.report.phases = JList(<<>>)


\* ---------------------------------------------------------------- Stage 2 fan-out claims
\* one review_one task per surviving answer, under the survivor's label; no
\* response is handled before every task has issued its request
C32_OnePerSurvivor ==
    pc = "stage2" =>
        /\ DOMAIN calls = 1..Len(answers)
        /\ \A k \in DOMAIN calls : calls[k].tag = answers[k].label
        /\ (\E k \in DOMAIN calls : calls[k].seen # <<>>) => AllStarted

C32_GatherStep ==
    pc = "stage2" /\ pc' # "stage2" =>
        LET new == SubSeq(all_errors', Len(all_errors) + 1, Len(all_errors')) IN
        /\ \A k \in DOMAIN calls : calls[k].pc = "done"
        /\ Len(reviews'.items) + Len(new) = Len(answers)
        /\ \A i \in 1..Len(answers) :
              LET reviewed == {j \in 1..Len(reviews'.items) :
                                  reviews'.items[j].id = answers[i].id}
                  failed == {j \in 1..Len(new) : new[j].model = answers[i].label} IN
              /\ Cardinality(reviewed) + Cardinality(failed) = 1
              /\ reviewed # {} <=> calls[i].ok

C32_ReportStep ==
    pc' = "returned" /\ pc # "returned" /\ ~fast =>
        LET report == output'.report
            stage1_failures == Len(COUNCILORS) - Len(report.individual_answers) IN
        Len(report.peer_reviews) + (Len(report.errors) - stage1_failures)
            = Len(report.individual_answers)

\* C32: Stage 2 runs one review invocation per surviving councilor; all of
\* them have issued their request before any response is handled; the stage
\* returns only when all have returned; every survivor is then in exactly one
\* of the reviews and the Stage 2 errors; and the report of a run with
\* reviews has len(peer_reviews) + the number of Stage 2 errors
\* = len(individual_answers).
C32_Stage2Partition == []C32_OnePerSurvivor /\ [][C32_GatherStep /\ C32_ReportStep]_vars

\* three survivors, of which one failed as a reviewer
C32_Witness ==
    /\ pc = "returned"
    /\ ~fast
    /\ Len(output.report.individual_answers) = 3
    /\ Len(output.report.peer_reviews) = 2
    /\ Len(output.report.errors) = 2


\* ---------------------------------------------------------------- chairman prompt claims
\* where part occurs in text
Occurrences(text, part) ==
    {i \in 0..(Len(text) - Len(part)) : SubSeq(text, i + 1, i + Len(part)) = part}

\* survivors whose review call failed in a Stage 2 that ran
FailedIn2 ==
    {i \in 1..Len(answers) :
        ~fast /\ \A j \in 1..Len(reviews.items) : reviews.items[j].id # answers[i].id}

PlanOf(k) == <<"**", COUNCILORS[k].label, ":**", "<nl>", AnswerTokens[k]>>

ReviewBy(k) ==
    <<"**", COUNCILORS[k].label, "'s review of others:**", "<nl>",
      ReviewTokens[COUNCILORS[k].id]>>

\* C33: the prompt of the chairman call has the answer of every councilor
\* that succeeded in Stage 1 exactly once, under that councilor's label and
\* in roster order, and the review of every reviewer that succeeded in
\* Stage 2 exactly once under the reviewer's label; it has neither the label
\* nor the answer nor the failure text of a councilor that failed in Stage 1,
\* and no review section and no failure text for a reviewer that failed in
\* Stage 2; no answer is shown under an anonymous name.
C33_RealIdentities ==
    pc = "stage3" =>
        LET prompt == ChairmanPrompt(answers, reviews, fast)
            survived == Roster \ FailedIn1
            reviewed == {k \in survived :
                            ~fast /\ \E j \in 1..Len(reviews.items) :
                                        reviews.items[j].id = COUNCILORS[k].id} IN
        /\ Cardinality(FailedIn1) + Cardinality(FailedIn2) = Len(all_errors)
        /\ \A k \in survived :
              /\ Cardinality(Occurrences(prompt, PlanOf(k))) = 1
              /\ Cardinality(Occurrences(prompt, <<AnswerTokens[k]>>)) = 1
              /\ Cardinality(Occurrences(prompt, <<COUNCILORS[k].label, ":**">>)) = 1
        /\ \A k, l \in survived :
              k < l => \A i \in Occurrences(prompt, PlanOf(k)) :
                          \A j \in Occurrences(prompt, PlanOf(l)) : i < j
        /\ \A k \in reviewed :
              /\ Cardinality(Occurrences(prompt, ReviewBy(k))) = 1
              /\ Cardinality(Occurrences(prompt, <<ReviewTokens[COUNCILORS[k].id]>>)) = 1
        /\ \A k \in Roster \ reviewed :
              /\ ReviewTokens[COUNCILORS[k].id] \notin TokensOf(prompt)
              /\ Occurrences(prompt, <<COUNCILORS[k].label, "'s review of others:**">>) = {}
        /\ \A k \in FailedIn1 :
              /\ COUNCILORS[k].label \notin TokensOf(prompt)
              /\ AnswerTokens[k] \notin TokensOf(prompt)
        /\ TokensOf(prompt) \cap {"HTTP 500", " after ", " attempts", "Model "} = {}
        /\ \A k \in Roster : COUNCILORS[k].id \notin TokensOf(prompt)

\* the second councilor failed in Stage 1 and one of the three survivors
\* failed as a reviewer; the chairman request is being made
C33_Witness ==
    /\ pc = "stage3"
    /\ ~fast
    /\ FailedIn1 = {2}
    /\ Cardinality(FailedIn2) = 1
    /\ Len(reviews.items) = 2


\* ---------------------------------------------------------------- attribution claims
\* the text of the response that call k received last
OwnResponse(k) == TextContent(calls[k].seen[Len(calls[k].seen)].body)

\* for the calls of K that succeeded, in the order of list: the source of
\* the call with the trimmed text of the call's own response under field
RECURSIVE Attributed(_, _, _)
Attributed(list, field, from) ==
    IF from > Len(list) THEN <<>>
    ELSE (IF calls[from].ok
          THEN <<[f \in DOMAIN list[from] \cup {field} |->
                     IF f = field THEN Strip(OwnResponse(from)) ELSE list[from][f]]>>
          ELSE <<>>)
         \o Attributed(list, field, from + 1)

\* every call of the fan-out returned once, in some order
C34_AnyOrder ==
    /\ Len(finished.order) = Cardinality(DOMAIN calls)
    /\ {finished.order[i] : i \in 1..Len(finished.order)} = DOMAIN calls

C34_Stage1Step ==
    pc = "stage1" /\ pc' \in {"stage2", "stage3"} =>
        /\ C34_AnyOrder
        /\ answers' = Attributed(COUNCILORS, "answer", 1)
        /\ \A i \in 1..Len(answers') :
              \E k \in Roster :
                  /\ answers'[i].id = COUNCILORS[k].id
                  /\ answers'[i].answer = <<AnswerTokens[k]>>
        /\ all_errors' = EntriesAt(COUNCILORS, FailedCalls, 1)

C34_Stage2Step ==
    pc = "stage2" /\ pc' # "stage2" =>
        /\ C34_AnyOrder
        /\ reviews'.items = Attributed(answers, "review", 1)
        /\ \A i \in 1..Len(reviews'.items) :
              reviews'.items[i].review = <<ReviewTokens[reviews'.items[i].id]>>
        /\ all_errors' = all_errors \o EntriesAt(answers, FailedCalls, 1)

\* C34: whatever the order in which the calls of a stage returned, the
\* answer recorded for a councilor in Stage 1 is the trimmed text of the
\* response to that councilor's own request and the review recorded for a
\* reviewer in Stage 2 that of the response to that reviewer's own request;
\* the successes and the errors of a stage are listed in the order of the
\* roster (of the surviving answers in Stage 2), not in that of completion.
C34_Attribution == [][C34_Stage1Step /\ C34_Stage2Step]_vars

\* Stage 1 was gathered after its calls returned in reverse roster order,
\* the third with a failure
C34_Witness ==
    /\ pc = "stage2"
    /\ finished.order = <<4, 3, 2, 1>>
    /\ IdsOf(answers) = <<COUNCILORS[1].id, COUNCILORS[2].id, COUNCILORS[4].id>>
    /\ answers[3].answer = <<"answer-4">>
    /\ Len(all_errors) = 1

\* Stage 2 was gathered after its reviewers returned last to first
C34_WitnessStage2 ==
    /\ pc = "stage3"
    /\ finished.order = <<4, 3, 2, 1>>
    /\ Len(reviews.items) = 3
    /\ reviews.items[1].review = <<"review-1">>


\* ---------------------------------------------------------------- shared answers claims
\* the answers are those of the Stage 1 survivors, in roster order
C35_Stage1Order ==
    /\ IdsOf(answers) = RosterIds(Roster \ FailedIn1, 1)
    /\ \A i \in 1..Len(answers) : answers[i].answer \in AnonTexts
    /\ Len(answers) + Len(all_errors) = Len(COUNCILORS)

\* what the chairman and the report would list
C35_ListedInOrder ==
    /\ AnswersBlock(answers)
          = JoinBy([i \in 1..Len(answers) |->
                       <<"**", answers[i].label, ":**", "<nl>">> \o answers[i].answer],
                   <<"<nl>", "<nl>">>)
    /\ [i \in 1..Len(answers) |->
           RunReport(DegradedRecord(<<>>, <<>>)).individual_answers[i].model]
          = [i \in 1..Len(answers) |-> answers[i].label]

\* every bundle built so far is made of all the other survivors
C35_FullSet ==
    \A k \in Built :
        {shown[k].order[i] : i \in 1..Len(shown[k].order)}
            = {answers[j].id : j \in Peers(k)}

\* C35: no call of anonymize_answers changes the list of surviving answers:
\* after the calls made for any of the reviewers, in any order, the list has
\* the contents and the order Stage 1 gave it, every bundle is made of all
\* the other survivors, and the chairman prompt and individual_answers list
\* the answers in that order.
C35_InputUnchanged ==
    /\ [](C35_Stage1Order /\ C35_ListedInOrder /\ C35_FullSet)
    /\ [][answers' = answers]_vars

\* all four reviewers have their bundle, the first one in another order than
\* the roster's, and the answers are in roster order
C35_Witness ==
    /\ Built = DOMAIN shown
    /\ Len(answers) = 4
    /\ shown[1].order = <<COUNCILORS[4].id, COUNCILORS[2].id, COUNCILORS[3].id>>
    /\ IdsOf(answers) = IdsOf(COUNCILORS)


\* ---------------------------------------------------------------- sleep claims
C36_Between ==
    /\ Solo.pc = "created" => Solo.nsleep = 0 /\ Solo.nreq = 0
    /\ Solo.pc = "post" => Solo.nsleep = Solo.nreq - 1
    /\ Solo.pc = "sleep" =>
          /\ Solo.nsleep = Solo.nreq
          /\ Solo.nreq = Len(Solo.seen)
          /\ Solo.nreq <= MAX_RETRIES
          /\ ~WellFormed(LastSeen)
          /\ ENABLED SoloWake
    /\ Solo.pc = "done" =>
          /\ Solo.nsleep = Solo.nreq - 1
          /\ Solo.nreq = Len(Solo.seen)
          /\ ~Solo.ok => Solo.nreq = MAX_RETRIES + 1

C36_Step ==
    /\ Solo'.nsleep > Solo.nsleep =>
          /\ Solo.pc = "post" /\ Solo'.pc = "sleep"
          /\ Solo'.nsleep = Solo.nsleep + 1
          /\ Solo.attempt < MAX_RETRIES
          /\ Solo'.nreq = Solo.nreq
    /\ Solo.pc = "sleep" /\ Solo' # Solo =>
          /\ Solo'.pc = "post"
          /\ Solo'.nreq = Solo.nreq + 1
          /\ Solo'.nsleep = Solo.nsleep
    /\ Solo.pc = "done" => Solo' = Solo

\* C36: call_model sleeps only right after an attempt that failed and was
\* not the last one, and the only thing that follows a sleep is the next
\* request, which can always be made; nothing happens after the return; so a
\* sleeping invocation has slept as often as it has posted and one that has
\* returned, with a success or after the final attempt, once less.
C36_SleepsBetween == []C36_Between /\ [][C36_Step]_vars

\* success at the third attempt, after two sleeps
C36_Witness ==
    /\ Solo.pc = "done"
    /\ Solo.ok
    /\ Solo.nreq = 3
    /\ Solo.nsleep = 2


\* ---------------------------------------------------------------- chairman failure claims
ChairmanFailed ==
    /\ pc = "stage3"
    /\ calls[1].pc = "done"
    /\ ~calls[1].ok \/ parse_chairman_json(Raw).strategy = 0

C37_Step ==
    ChairmanFailed /\ pc' # "stage3" =>
        LET report == output'.report IN
        /\ pc' = "returned"
        /\ all_errors' = all_errors
        /\ report.errors = all_errors
        /\ Len(report.errors) = Cardinality(FailedIn1) + Cardinality(FailedIn2)
        /\ \A i \in 1..Len(report.errors) :
              /\ report.errors[i].model \in LabelsOf(COUNCILORS)
              /\ CHAIRMAN.label \notin TokensOf(report.errors[i].error)
        /\ report.confidence = JStr(<<"unknown">>)
        /\ report.executive_summary
              = JStr(IF calls[1].ok THEN Raw
                     ELSE <<"Chairman failed to respond: ">> \o FailureText(calls[1]))
        /\ report.confidence_note
              = JStr(IF calls[1].ok
                     THEN <<"Chairman response could not be parsed as JSON.">>
                     ELSE <<"Chairman call failed.">>)
        /\ report.resource_considerations = JStr(<<>>)
        /\ \A key \in ListFieldNames : report[key] = JList(<<>>)
        /\ report.chairman = CHAIRMAN.label
        /\ report.stage2_skipped = fast

\* C37: when the chairman call fails after its last attempt, or its reply
\* yields no JSON, the report is returned with the errors list run_council
\* had before Stage 3, which holds the Stage 1 and Stage 2 failures and
\* nothing about the chairman; the failure shows in executive_summary, in
\* confidence = "unknown" and in confidence_note, and the other fields are
\* what they are in any run.
C37_NoChairmanEntry == [][C37_Step]_vars

\* the chairman call failed in a run without any other failure
C37_Witness ==
    /\ pc = "returned"
    /\ output.report.errors = <<>>
    /\ output.report.confidence_note = JStr(<<"Chairman call failed.">>)
    /\ Len(output.report.peer_reviews) = 4

\* the chairman answered in prose after one councilor had failed
C37_WitnessProse ==
    /\ pc = "returned"
    /\ Len(output.report.errors) = 1
    /\ output.report.executive_summary = JStr(<<"word", " ", "word">>)
    /\ output.report.confidence_note
          = JStr(<<"Chairman response could not be parsed as JSON.">>)


\* ---------------------------------------------------------------- termination claims
\* (2N + 1) * (MAX_RETRIES + 1) requests with reviews, (N + 1) * (MAX_RETRIES + 1)
\* in fast mode, N being the roster size
RequestBound ==
    (IF fast THEN Len(COUNCILORS) + 1 ELSE 2 * Len(COUNCILORS) + 1) * (MAX_RETRIES + 1)

C38_Bound == Total <= RequestBound

\* steps a call_model invocation can still take
StepsLeft(cs) ==
    CASE cs.pc = "created" -> 2 * MAX_RETRIES + 3
      [] cs.pc = "post" -> 2 * (MAX_RETRIES - cs.attempt) + 2
      [] cs.pc = "sleep" -> 2 * (MAX_RETRIES - cs.attempt) + 1
      [] cs.pc = "done" -> 0

RECURSIVE SumSteps(_, _)
SumSteps(cs, from) ==
    IF from > Len(cs) THEN 0 ELSE StepsLeft(cs[from]) + SumSteps(cs, from + 1)

\* a measure of what is left of the run
Measure ==
    100 * (CASE pc = "start" -> 4 [] pc = "stage1" -> 3 [] pc = "stage2" -> 2
             [] pc = "stage3" -> 1 [] OTHER -> 0)
    + SumSteps(calls, 1)

\* every step brings the end nearer, and before the end a step can be taken
C38_Progress == [][Measure' < Measure]_vars

C38_NotStuck ==
    \/ pc \in {"returned", "raised"}
    \/ pc = "start"
    \/ /\ Stage
       /\ calls # <<>>
       /\ \/ \E k \in DOMAIN calls : calls[k].pc = "created"
          \/ \E k \in DOMAIN calls : calls[k].pc = "sleep"
          \/ \E k \in DOMAIN calls : calls[k].pc = "post" /\ StageResponses(k) # {}
          \/ AllDone

\* C38: every run in which each request gets a response or raises ends, and
\* it ends by returning a report or by raising the quorum error: each step
\* brings the end nearer, a step can be taken as long as the run has neither
\* returned nor raised, and nothing but the quorum error is raised; the run
\* has made at most (2N + 1) * (MAX_RETRIES + 1) requests with reviews and at
\* most (N + 1) * (MAX_RETRIES + 1) in fast mode.
C38_Terminates ==
    /\ C38_Progress
    /\ []C38_NotStuck
    /\ [](pc = "raised" => QuorumError)
    /\ []C38_Bound


\* ---------------------------------------------------------------- report to renderer claims
\* the fields build_pdf reads from the cleaned record for the narrative
\* (council_pdf.py:433-452)
ShownFields == {"final_answer", "consensus_points", "disagreements", "confidence",
                "confidence_note"}

\* C39: for every report run_council returns, the record validate_input
\* makes of it has the report's narrative texts and synthesis lists
\* (executive_summary, resource_considerations, confidence, confidence_note
\* and the eight list fields) with the report's values, and every narrative
\* field the renderer shows is one the report supplied, not a default.
C39_SameNarrative ==
    pc = "validated" =>
        /\ \A key \in TextFieldNames \cup ListFieldNames :
              /\ key \in DOMAIN output.cleaned
              /\ output.cleaned[key] = output.data.f[key]
        /\ \A key \in ShownFields : key \in DOMAIN output.data.f

\* what does carry over, and what the renderer shows instead
C39_Carried ==
    pc = "validated" =>
        /\ \A key \in {"disagreements", "confidence", "confidence_note", "question",
                       "chairman", "council", "individual_answers", "errors"} :
              output.cleaned[key] = output.data.f[key]
        /\ output.cleaned.final_answer = JStr(<<"No answer provided.">>)
        /\ output.cleaned.consensus_points = JList(<<>>)
        /\ DOMAIN output.cleaned \cap {"executive_summary", "deliverables", "phases", "risks"}
              = {}


\* ---------------------------------------------------------------- report shape claims
ModelsOf(list) == {list[i].model : i \in 1..Len(list)}

ReviewersOf(list) == {list[i].reviewer : i \in 1..Len(list)}

\* C40: in every report returned, council is the labels of the whole roster
\* in roster order, whoever failed; individual_answers has at least
\* MIN_QUORUM entries, of distinct councilors of the roster; the reviewers of
\* peer_reviews are distinct and among the authors of individual_answers;
\* and stage2_skipped is the fast flag, so that a run with reviews in which
\* every review failed has stage2_skipped false and no peer_reviews.
C40_ReportShape ==
    pc = "returned" =>
        LET report == output.report
            authors == ModelsOf(report.individual_answers)
            reviewers == ReviewersOf(report.peer_reviews) IN
        /\ report.council = [k \in Roster |-> COUNCILORS[k].label]
        /\ Len(report.council) = Len(COUNCILORS)
        /\ authors \subseteq {report.council[k] : k \in Roster}
        /\ Cardinality(authors) = Len(report.individual_answers)
        /\ Len(report.individual_answers) >= MIN_QUORUM
        /\ reviewers \subseteq authors
        /\ Cardinality(reviewers) = Len(report.peer_reviews)
        /\ report.stage2_skipped = fast
        /\ fast => report.peer_reviews = <<>>
        /\ Len(report.individual_answers) + Len(report.peer_reviews) + Len(report.errors)
              = IF fast THEN Len(COUNCILORS)
                ELSE Len(COUNCILORS) + Len(report.individual_answers)

\* two councilors failed in Stage 1 and both reviews failed in Stage 2
C40_Witness ==
    /\ pc = "returned"
    /\ ~fast
    /\ output.report.stage2_skipped = FALSE
    /\ output.report.peer_reviews = <<>>
    /\ Len(output.report.individual_answers) = 2
    /\ Len(output.report.council) = 4
    /\ Len(output.report.errors) = 4


====
